---------------------------- MODULE Spec2Model ----------------------------
(***************************************************************************)
(* Solana Attestation Service: the registry of credentials, schemas and    *)
(* attestations, and the instruction processors that mutate it.            *)
(*                                                                         *)
(* Every instruction runs as one ledger transaction: it either commits all *)
(* of its effects or, on any error or panic, none of them.  An action of   *)
(* this module is one whole transaction.  `last' holds the request of the  *)
(* most recent transaction, its result and the events it emitted (events   *)
(* are self-CPI inner instructions, which the ledger keeps per             *)
(* transaction).                                                           *)
(***************************************************************************)
EXTENDS Integers, Sequences, FiniteSets, TLC

(***************************************************************************)
(* Bounds of the model.                                                    *)
(***************************************************************************)
\* lamport balances are u64; the model keeps the arithmetic and narrows the width
LamportBits == 2
\* the ledger clock (unix time) starts here: 0 is the "no expiry" value and
\* times 1..ClockGenesis-1 are nonzero timestamps already in the past
ClockGenesis == 2
\* how many times the clock advances
ClockTicks == 1
\* longest authorized-signer list submitted
MaxSigners == 2
\* lamports the rent sysvar asks for a new attestation account
RentMinimum == 1

U64_MAX == 2 ^ LamportBits - 1

MaxTime == ClockGenesis + ClockTicks

(***************************************************************************)
(* Identities, names and the values requests are drawn from.               *)
(***************************************************************************)
Identities == {"issuer", "signer1"}
Authority == "issuer"
CredentialNames == {"ORG"}
\* a second organisation under the same issuer
OtherCredentialNames == {"LAB"}
SchemaNames == {"BASICS"}
SchemaVersions == {1}
Nonces == {"test_user"}

\* Pubkey::default(), the stored token reference of a non-tokenized attestation
DefaultPubkey == "default"
\* addresses of token mints
Mints == {"mint1", "mint2"}
\* Option<Pubkey>::None
None == "none"

NoAccount == [kind |-> "none"]

(***************************************************************************)
(* Program derived addresses.  find_program_address is collision-resistant *)
(* SHA-256 over the seeds; the model keeps the seed tuple itself.          *)
(***************************************************************************)
CredentialPda(authority, name) == <<"credential", authority, name>>

SchemaPda(credential, name, version) == <<"schema", credential, name, version>>

AttestationPda(credential, schema, nonce) == <<"attestation", credential, schema, nonce>>

CredentialAddrs ==
  {CredentialPda(a, n) : a \in {Authority}, n \in CredentialNames \cup OtherCredentialNames}

SchemaAddrs ==
  {SchemaPda(c, n, v) : c \in CredentialAddrs, n \in SchemaNames, v \in SchemaVersions}

AttestationAddrs ==
  {AttestationPda(c, s, n) : c \in CredentialAddrs, s \in SchemaAddrs, n \in Nonces}

\* the addresses under the first organisation
HomeCredentials == {CredentialPda(Authority, n) : n \in CredentialNames}

HomeSchemas ==
  {SchemaPda(c, n, v) : c \in HomeCredentials, n \in SchemaNames, v \in SchemaVersions}

HomeAttestations ==
  {AttestationPda(c, s, n) : c \in HomeCredentials, s \in HomeSchemas, n \in Nonces}

(***************************************************************************)
(* Schema layout codec.  Type codes: 0 is u8 (one byte), 12 is String (a   *)
(* u32 little-endian length, then that many bytes).                        *)
(***************************************************************************)
U8 == 0
String == 12
TestLayout == <<String, U8>>

U32LE(data, off) ==
  data[off + 1] + 256 * data[off + 2] + 65536 * data[off + 3] + 16777216 * data[off + 4]

RECURSIVE Walk(_, _, _)
Walk(layout, data, off) ==
  IF layout = <<>>
  THEN off = Len(data)
  ELSE IF Head(layout) = U8
       THEN off + 1 <= Len(data) /\ Walk(Tail(layout), data, off + 1)
       ELSE /\ off + 4 <= Len(data)
            /\ off + 4 + U32LE(data, off) <= Len(data)
            /\ Walk(Tail(layout), data, off + 4 + U32LE(data, off))

validate_data(layout, data) == Walk(layout, data, 0)

\* Borsh encodings of TestData under TestLayout
ValidData == {<<1, 0, 0, 0, 97, 11>>}
\* too short for the layout
ShortData == {<<1, 0, 0, 0, 97>>}
\* a byte left over after the last field
TrailingData == {<<1, 0, 0, 0, 97, 11, 9>>}
\* seven garbage bytes and then a valid encoding
GarbageData == {<<1, 2, 3, 4, 5, 6, 7, 1, 0, 0, 0, 97, 11>>}
\* a length prefix that claims more bytes than remain
OverclaimData == {<<5, 0, 0, 0, 97, 11>>}
MalformedData == ShortData \cup TrailingData \cup GarbageData \cup OverclaimData
DataSamples == ValidData \cup MalformedData

(***************************************************************************)
(* State.                                                                  *)
(***************************************************************************)
VARIABLES
  credentials,   \* credential address -> Credential account, or NoAccount
  schemas,       \* schema address -> Schema account, or NoAccount
  attestations,  \* attestation address -> Attestation account, NoAccount, or closed
  lamports,      \* balance of the payer and of every attestation address
  clock,         \* Clock::get().unix_timestamp
  last           \* the most recent transaction

vars == <<credentials, schemas, attestations, lamports, clock, last>>

registry == <<credentials, schemas, attestations, lamports>>

Payer == <<"payer">>

\* the ledger removes a closed account; the model keeps the mark to tell a
\* triple that was closed from one never used
ClosedAccount == [kind |-> "closed"]

IsActive(a) == attestations[a].kind = "attestation"

Init ==
  /\ credentials = [c \in CredentialAddrs |-> NoAccount]
  /\ schemas = [s \in SchemaAddrs |-> NoAccount]
  /\ attestations = [a \in AttestationAddrs |-> NoAccount]
  /\ lamports = [x \in {Payer} \cup AttestationAddrs |-> IF x = Payer THEN RentMinimum ELSE 0]
  /\ clock = ClockGenesis
  /\ last = [op |-> "init", result |-> "Ok"]


(***************************************************************************)
(* Shared checks of the processors.                                        *)
(***************************************************************************)
\* verify_owner_mutability(info, program_id, _): only accounts the program
\* created are owned by it; an address with no account is system-owned
OwnedCredential(c) == credentials[c].kind = "credential"

OwnedSchema(s) == schemas[s].kind = "schema"

InList(list, x) == \E i \in 1 .. Len(list) : list[i] = x

HasDuplicate(list) == \E i, j \in 1 .. Len(list) : i # j /\ list[i] = list[j]

\* the credential's authority passes without being listed
validate_authorized_signer_or_authority(credential, signer) ==
  signer = credential.authority \/ InList(credential.authorized_signers, signer)

\* only the first entry of the list is compared
validate_authorized_signer_first_only(credential, signer) ==
  /\ Len(credential.authorized_signers) > 0
  /\ credential.authorized_signers[1] = signer

\* Credential::validate_authorized_signer: membership in authorized_signers
validate_authorized_signer(credential, signer) ==
  InList(credential.authorized_signers, signer)

\* a committed transaction is kept with its request and events; of a failed
\* one only the instruction, the error and the check that raised it (the
\* program log) are observable
Record(op, req, result, check, events) ==
  IF result = "Ok"
  THEN [op |-> op, result |-> result, req |-> req, events |-> events]
  ELSE [op |-> op, result |-> result, check |-> check]

(***************************************************************************)
(* CreateCredential.                                                       *)
(***************************************************************************)
SignerLists == UNION {[1 .. k -> Identities] : k \in 0 .. MaxSigners}

CreateCredentialRequests ==
  [authority : {Authority}, name : CredentialNames,
   signers : {l \in SignerLists : ~HasDuplicate(l)}]

process_create_credential(req) ==
  IF credentials[CredentialPda(req.authority, req.name)] # NoAccount
  THEN "AccountCreationError"
  ELSE "Ok"

CreateCredential(req) ==
  LET result == process_create_credential(req)
      pda == CredentialPda(req.authority, req.name)
  IN /\ last' = Record("CreateCredential", req, result, result, <<>>)
     /\ IF result = "Ok"
        THEN credentials' = [credentials EXCEPT ![pda] =
               [kind |-> "credential", authority |-> req.authority, name |-> req.name,
                authorized_signers |-> req.signers]]
        ELSE UNCHANGED credentials
     /\ UNCHANGED <<schemas, attestations, lamports, clock>>

(***************************************************************************)
(* ChangeAuthorizedSigners.                                                *)
(***************************************************************************)
ChangeAuthorizedSignersRequests ==
  [is_signer : BOOLEAN, authority : Identities, credential : HomeCredentials,
   signers : SignerLists]

\* any signer may replace the list
process_change_authorized_signers_any_signer(req) ==
  IF ~req.is_signer THEN "MissingRequiredSignature"
  ELSE IF ~OwnedCredential(req.credential) THEN "InvalidAccountOwner"
  ELSE IF HasDuplicate(req.signers) THEN "InvalidInstructionData"
  ELSE "Ok"

process_change_authorized_signers(req) ==
  IF ~req.is_signer THEN "MissingRequiredSignature"
  ELSE IF ~OwnedCredential(req.credential) THEN "InvalidAccountOwner"
  ELSE IF credentials[req.credential].authority # req.authority THEN "SignerNotAuthorized"
  ELSE IF HasDuplicate(req.signers) THEN "InvalidInstructionData"
  ELSE "Ok"

ChangeAuthorizedSigners(req) ==
  LET result == process_change_authorized_signers(req)
  IN /\ last' = Record("ChangeAuthorizedSigners", req, result, result, <<>>)
     /\ IF result = "Ok"
        THEN credentials' = [credentials EXCEPT
               ![req.credential].authorized_signers = req.signers]
        ELSE UNCHANGED credentials
     /\ UNCHANGED <<schemas, attestations, lamports, clock>>

(***************************************************************************)
(* CreateSchema and ChangeSchemaStatus.                                    *)
(***************************************************************************)
CreateSchemaRequests ==
  [is_signer : {TRUE}, authority : Identities, credential : HomeCredentials,
   name : SchemaNames, version : SchemaVersions, layout : {TestLayout}]

process_create_schema(req) ==
  IF ~req.is_signer THEN "MissingRequiredSignature"
  ELSE IF ~OwnedCredential(req.credential) THEN "InvalidAccountOwner"
  ELSE IF credentials[req.credential].authority # req.authority THEN "SignerNotAuthorized"
  ELSE IF schemas[SchemaPda(req.credential, req.name, req.version)] # NoAccount
  THEN "AccountCreationError"
  ELSE "Ok"

CreateSchema(req) ==
  LET result == process_create_schema(req)
      pda == SchemaPda(req.credential, req.name, req.version)
  IN /\ last' = Record("CreateSchema", req, result, result, <<>>)
     /\ IF result = "Ok"
        THEN schemas' = [schemas EXCEPT ![pda] =
               [kind |-> "schema", credential |-> req.credential, name |-> req.name,
                version |-> req.version, layout |-> req.layout, is_paused |-> FALSE]]
        ELSE UNCHANGED schemas
     /\ UNCHANGED <<credentials, attestations, lamports, clock>>

ChangeSchemaStatusRequests ==
  [is_signer : {TRUE}, authority : Identities, credential : HomeCredentials,
   schema : HomeSchemas, is_paused : BOOLEAN]

process_change_schema_status(req) ==
  IF ~req.is_signer THEN "MissingRequiredSignature"
  ELSE IF ~OwnedCredential(req.credential) \/ ~OwnedSchema(req.schema)
  THEN "InvalidAccountOwner"
  ELSE IF credentials[req.credential].authority # req.authority THEN "SignerNotAuthorized"
  ELSE IF schemas[req.schema].credential # req.credential THEN "InvalidCredential"
  ELSE "Ok"

\* the flag is flipped, whatever value is submitted
ChangeSchemaStatus_flips(req) ==
  LET result == process_change_schema_status(req)
  IN /\ last' = Record("ChangeSchemaStatus", req, result, result, <<>>)
     /\ IF result = "Ok"
        THEN schemas' = [schemas EXCEPT ![req.schema].is_paused = ~@]
        ELSE UNCHANGED schemas
     /\ UNCHANGED <<credentials, attestations, lamports, clock>>

ChangeSchemaStatus(req) ==
  LET result == process_change_schema_status(req)
  IN /\ last' = Record("ChangeSchemaStatus", req, result, result, <<>>)
     /\ IF result = "Ok"
        THEN schemas' = [schemas EXCEPT ![req.schema].is_paused = req.is_paused]
        ELSE UNCHANGED schemas
     /\ UNCHANGED <<credentials, attestations, lamports, clock>>

(***************************************************************************)
(* Account lookup by address.                                              *)
(***************************************************************************)
AccountAt(addr) ==
  IF addr \in CredentialAddrs THEN credentials[addr]
  ELSE IF addr \in SchemaAddrs THEN schemas[addr]
  ELSE IF addr \in AttestationAddrs THEN attestations[addr]
  ELSE NoAccount

\* verify_owner_mutability: the account's owner is this program
ProgramOwned(addr) == AccountAt(addr).kind \in {"credential", "schema", "attestation"}

SystemProgram == "system_program"
AttestationProgram == "attestation_program"
EventAuthorityPda == "event_authority"
OtherProgram == "other_program"

(***************************************************************************)
(* CreateAttestation: process_create_attestation, its checks in the order  *)
(* of the processor's lines.                                               *)
(***************************************************************************)
CreateAttestationAccounts == 6

\* the comparison with the clock is <=
expiry_is_stale_at_tie(expiry, now) == expiry <= now /\ expiry # 0

\* the zero expiry is not exempted
expiry_is_stale_zero_too(expiry, now) == expiry < now

\* lines 63-66: args.expiry < clock.unix_timestamp && args.expiry != 0
expiry_is_stale(expiry, now) == expiry < now /\ expiry # 0

\* the flag is not read
schema_is_paused_ignored(schema) == FALSE

\* lines 53-55: schema.is_paused
schema_is_paused(schema) == schema.is_paused

\* the data is written without being validated
data_conforms_unchecked(schema, data) == TRUE

\* line 130: attestation.validate_data(schema.layout)
data_conforms(schema, data) == validate_data(schema.layout, data)

\* the schema's credential is not compared
schema_credential_differs_unchecked(schema, credential_key) == FALSE

\* lines 58-60: schema.credential.ne(credential_info.key())
schema_credential_differs(schema, credential_key) == schema.credential # credential_key

\* the supplied address is not compared with the derived one
attestation_key_differs_unchecked(key, pda) == FALSE

\* lines 71-84: attestation_info.key().ne(&attestation_pda.to_bytes())
attestation_key_differs(key, pda) == key # pda

\* the allocation goes ahead over an account that is there
account_in_use_ignored(addr) == FALSE

\* lines 109-117: create_pda_account allocates only where no account is
account_in_use(addr) == AccountAt(addr).kind = "attestation"

\* the account count first, then the signature, the owners, and the system
\* program and the instruction data after them
create_account_checks_ownership_first(req) ==
  IF req.num_accounts # CreateAttestationAccounts THEN "accounts"
  ELSE IF ~req.is_signer THEN "verify_signer"
  ELSE IF ~ProgramOwned(req.credential) THEN "credential_owner"
  ELSE IF ~ProgramOwned(req.schema) THEN "schema_owner"
  ELSE IF req.system_program # SystemProgram THEN "verify_system_program"
  ELSE IF ~req.instruction_data_ok THEN "instruction_data"
  ELSE "none"

\* the checks of process_create_attestation on the instruction and its accounts
create_account_checks(req) ==
  \* line 27: process_instruction_data, require_len!
  IF ~req.instruction_data_ok THEN "instruction_data"
  \* lines 28-32: account destructuring
  ELSE IF req.num_accounts # CreateAttestationAccounts THEN "accounts"
  \* line 35: verify_signer
  ELSE IF ~req.is_signer THEN "verify_signer"
  \* line 38: verify_system_program
  ELSE IF req.system_program # SystemProgram THEN "verify_system_program"
  \* lines 40-41: verify_owner_mutability of credential and schema
  ELSE IF ~ProgramOwned(req.credential) THEN "credential_owner"
  ELSE IF ~ProgramOwned(req.schema) THEN "schema_owner"
  ELSE "none"

\* the first check of process_create_attestation that fails, "none" if all pass
create_attestation_check(req) ==
  LET credential == AccountAt(req.credential)
      schema == AccountAt(req.schema)
      pda == AttestationPda(req.credential, req.schema, req.nonce)
  IN
  IF create_account_checks(req) # "none" THEN create_account_checks(req)
  \* line 44: Credential::try_from_bytes
  ELSE IF credential.kind # "credential" THEN "credential_data"
  \* line 47: validate_authorized_signer
  ELSE IF ~validate_authorized_signer(credential, req.authorized_signer)
  THEN "validate_authorized_signer"
  \* line 50: Schema::try_from_bytes
  ELSE IF schema.kind # "schema" THEN "schema_data"
  \* lines 53-55
  ELSE IF schema_is_paused(schema) THEN "is_paused"
  \* lines 58-60
  ELSE IF schema_credential_differs(schema, req.credential) THEN "schema_credential"
  \* lines 63-66
  ELSE IF expiry_is_stale(req.expiry, clock) THEN "expiry"
  \* lines 71-84
  ELSE IF attestation_key_differs(req.attestation, pda) THEN "attestation_pda"
  \* lines 109-117: create_pda_account, funded by the payer
  ELSE IF account_in_use(pda) THEN "create_pda_account"
  ELSE IF lamports[Payer] < RentMinimum THEN "rent"
  \* line 130: validate_data against the schema layout
  ELSE IF ~data_conforms(schema, req.data) THEN "validate_data"
  ELSE "none"

\* the error each failing check returns
CreateAttestationError(check) ==
  CASE check = "instruction_data" -> "InvalidInstructionData"
    [] check = "accounts" -> "NotEnoughAccountKeys"
    [] check = "verify_signer" -> "MissingRequiredSignature"
    [] check = "verify_system_program" -> "IncorrectProgramId"
    [] check \in {"credential_owner", "schema_owner"} -> "InvalidAccountOwner"
    [] check \in {"credential_data", "schema_data"} -> "InvalidAccountData"
    [] check = "validate_authorized_signer" -> "SignerNotAuthorized"
    [] check = "is_paused" -> "SchemaPaused"
    [] check = "schema_credential" -> "InvalidCredential"
    [] check \in {"expiry", "validate_data"} -> "InvalidAttestationData"
    [] check = "attestation_pda" -> "InvalidAttestation"
    [] check = "create_pda_account" -> "AccountCreationError"
    [] check = "rent" -> "InsufficientLamports"
    [] check = "none" -> "Ok"

process_create_attestation(req) == CreateAttestationError(create_attestation_check(req))

\* token_account.unwrap_or_default()
unwrap_or_default(token_account) ==
  IF token_account = None THEN DefaultPubkey ELSE token_account

\* the credential's authority is written as the signer
NewAttestation_signer_is_authority(req) ==
  [kind |-> "attestation", nonce |-> req.nonce, credential |-> req.credential,
   schema |-> req.schema, data |-> req.data,
   signer |-> credentials[req.credential].authority,
   expiry |-> req.expiry, token_account |-> unwrap_or_default(req.token_account)]

\* the Attestation written at line 133
NewAttestation(req) ==
  [kind |-> "attestation", nonce |-> req.nonce, credential |-> req.credential,
   schema |-> req.schema, data |-> req.data, signer |-> req.authorized_signer,
   expiry |-> req.expiry, token_account |-> unwrap_or_default(req.token_account)]

CreateAttestation(req) ==
  LET result == process_create_attestation(req)
      pda == AttestationPda(req.credential, req.schema, req.nonce)
  IN /\ last' = Record("CreateAttestation", req, result, create_attestation_check(req), <<>>)
     /\ IF result = "Ok"
        THEN /\ attestations' = [attestations EXCEPT ![pda] = NewAttestation(req)]
             /\ lamports' = [lamports EXCEPT ![Payer] = @ - RentMinimum,
                                             ![pda] = @ + RentMinimum]
        ELSE UNCHANGED <<attestations, lamports>>
     /\ UNCHANGED <<credentials, schemas, clock>>

(***************************************************************************)
(* CloseAttestation: process_close_attestation.                            *)
(***************************************************************************)
CloseAttestationAccounts == 7

\* the stored reference is compared only when a token account is given
token_account_consistent_when_given(token_account, attestation) ==
  token_account # None => attestation.token_account = token_account

\* lines 56-62: the token account given to the processor against the stored one
token_account_consistent(token_account, attestation) ==
  IF token_account # None
  THEN attestation.token_account = token_account
  ELSE attestation.token_account = DefaultPubkey

\* u64::wrapping_add
checked_add_wrapping(a, b) == <<(a + b) % (U64_MAX + 1)>>

\* u64::checked_add: Some(sum) is <<sum>>, None is << >>
checked_add(a, b) == IF a + b > U64_MAX THEN <<>> ELSE <<a + b>>

\* the event names the schema and carries no data
CloseAttestationEvent_without_data(attestation) ==
  [discriminator |-> "CloseAttestationEvent", schema |-> attestation.schema,
   attestation_data |-> <<>>]

CloseAttestationEvent(attestation) ==
  [discriminator |-> "CloseAttestationEvent", schema |-> attestation.schema,
   attestation_data |-> attestation.data]

\* the attestation's credential is not compared
attestation_credential_differs_unchecked(attestation, credential_key) == FALSE

\* the comparison is inverted
attestation_credential_differs_inverted(attestation, credential_key) ==
  attestation.credential = credential_key

\* lines 65-67: !attestation.credential.eq(credential_info.key())
attestation_credential_differs(attestation, credential_key) ==
  attestation.credential # credential_key

\* the event authority is compared before the lamports are moved
close_final_checks_event_first(req) ==
  IF req.event_authority # EventAuthorityPda THEN "event_authority"
  ELSE IF checked_add(lamports[Payer], lamports[req.attestation]) = <<>>
  THEN "checked_add"
  ELSE IF ~req.cpi_ok THEN "invoke_signed"
  ELSE "none"

\* the steps of process_close_attestation from the transfer on
close_final_checks(req) ==
  \* lines 70-75: checked_add(..).unwrap() panics and the transaction fails
  IF checked_add(lamports[Payer], lamports[req.attestation]) = <<>>
  THEN "checked_add"
  \* lines 78-80
  ELSE IF req.event_authority # EventAuthorityPda THEN "event_authority"
  \* lines 82-99: invoke_signed
  ELSE IF ~req.cpi_ok THEN "invoke_signed"
  ELSE "none"

\* the first check of process_close_attestation that fails, "none" if all pass
close_attestation_check(req) ==
  LET credential == AccountAt(req.credential)
      attestation == AccountAt(req.attestation)
  IN
  \* lines 27-31
  IF req.num_accounts # CloseAttestationAccounts THEN "accounts"
  \* line 34
  ELSE IF ~req.is_signer THEN "verify_signer"
  \* line 37
  ELSE IF req.system_program # SystemProgram THEN "verify_system_program"
  \* line 40
  ELSE IF req.attestation_program # AttestationProgram THEN "verify_current_program"
  \* line 43
  ELSE IF ~ProgramOwned(req.credential) THEN "credential_owner"
  \* line 44: owner, then writable
  ELSE IF ~ProgramOwned(req.attestation) THEN "attestation_owner"
  ELSE IF ~req.attestation_writable THEN "attestation_writable"
  \* line 48
  ELSE IF credential.kind # "credential" THEN "credential_data"
  \* line 49
  ELSE IF ~validate_authorized_signer(credential, req.authorized_signer)
  THEN "validate_authorized_signer"
  \* line 52
  ELSE IF attestation.kind # "attestation" THEN "attestation_data"
  \* lines 56-62
  ELSE IF ~token_account_consistent(req.token_account, attestation) THEN "token_account"
  \* lines 65-67
  ELSE IF attestation_credential_differs(attestation, req.credential)
  THEN "attestation_credential"
  ELSE close_final_checks(req)

\* the error each failing check returns
CloseAttestationError(check) ==
  CASE check = "accounts" -> "NotEnoughAccountKeys"
    [] check = "verify_signer" -> "MissingRequiredSignature"
    [] check \in {"verify_system_program", "verify_current_program"} -> "IncorrectProgramId"
    [] check \in {"credential_owner", "attestation_owner"} -> "InvalidAccountOwner"
    [] check \in {"attestation_writable", "credential_data", "attestation_data"}
         -> "InvalidAccountData"
    [] check = "validate_authorized_signer" -> "SignerNotAuthorized"
    [] check = "token_account" -> "InvalidTokenAccount"
    [] check = "attestation_credential" -> "InvalidCredential"
    [] check = "checked_add" -> "ArithmeticOverflow"
    [] check = "event_authority" -> "InvalidEventAuthority"
    [] check = "invoke_signed" -> "EventEmissionFailed"
    [] check = "none" -> "Ok"

process_close_attestation(req) == CloseAttestationError(close_attestation_check(req))

\* the attestation's lamports are credited to the payer and left in place
LamportsAfterClose_not_zeroed(req) ==
  [lamports EXCEPT
     ![Payer] = checked_add(lamports[Payer], lamports[req.attestation])[1]]

\* lines 70-74: the payer receives the attestation's lamports, which are zeroed
LamportsAfterClose(req) ==
  [lamports EXCEPT
     ![Payer] = checked_add(lamports[Payer], lamports[req.attestation])[1],
     ![req.attestation] = 0]

\* the account is drained and not closed
AttestationsAfterClose_left_open(req) == attestations

\* line 75: attestation_info.close()
AttestationsAfterClose(req) ==
  [attestations EXCEPT ![req.attestation] = ClosedAccount]

\* the transfer and the closure made before the event checks stay when those fail
CloseAttestation_keeps_transfer(req) ==
  LET result == process_close_attestation(req)
      moved == close_attestation_check(req) \in {"none", "event_authority", "invoke_signed"}
  IN /\ last' = Record("CloseAttestation", req, result, close_attestation_check(req),
                       IF result = "Ok"
                       THEN <<CloseAttestationEvent(AccountAt(req.attestation))>>
                       ELSE <<>>)
     /\ IF moved
        THEN /\ lamports' = LamportsAfterClose(req)
             /\ attestations' = AttestationsAfterClose(req)
        ELSE UNCHANGED <<attestations, lamports>>
     /\ UNCHANGED <<credentials, schemas, clock>>

CloseAttestation(req) ==
  LET result == process_close_attestation(req)
  IN /\ last' = Record("CloseAttestation", req, result, close_attestation_check(req),
                       IF result = "Ok"
                       THEN <<CloseAttestationEvent(AccountAt(req.attestation))>>
                       ELSE <<>>)
     /\ IF result = "Ok"
        THEN /\ lamports' = LamportsAfterClose(req)
             /\ attestations' = AttestationsAfterClose(req)
        ELSE UNCHANGED <<attestations, lamports>>
     /\ UNCHANGED <<credentials, schemas, clock>>

(***************************************************************************)
(* The environment: the clock advances, the payer receives an airdrop.     *)
(***************************************************************************)
Tick ==
  /\ clock < MaxTime
  /\ clock' = clock + 1
  /\ last' = [op |-> "Tick", result |-> "Ok"]
  /\ UNCHANGED registry

Airdrop ==
  /\ lamports[Payer] < U64_MAX
  /\ lamports' = [lamports EXCEPT ![Payer] = @ + 1]
  /\ last' = [op |-> "Airdrop", result |-> "Ok"]
  /\ UNCHANGED <<credentials, schemas, attestations, clock>>

(***************************************************************************)
(* Requests of the registry specification: well-framed instructions (the   *)
(* right number of accounts, the right programs, the derived attestation   *)
(* address, a writable attestation) whose signer, data, expiry and token   *)
(* reference vary.                                                         *)
(***************************************************************************)
CreateAttestationRequests ==
  [instruction_data_ok : {TRUE},
   num_accounts : {CreateAttestationAccounts},
   is_signer : {TRUE},
   system_program : {SystemProgram},
   authorized_signer : Identities,
   credential : HomeCredentials,
   schema : HomeSchemas,
   attestation : HomeAttestations,
   nonce : Nonces,
   data : DataSamples,
   expiry : {0, clock - 1, clock, clock + 1},
   token_account : {None, "mint1"}]

CloseAttestationRequests ==
  [num_accounts : {CloseAttestationAccounts},
   is_signer : BOOLEAN,
   system_program : {SystemProgram},
   attestation_program : {AttestationProgram},
   authorized_signer : Identities,
   credential : HomeCredentials,
   attestation : HomeAttestations,
   attestation_writable : {TRUE},
   event_authority : {EventAuthorityPda},
   token_account : {None} \cup Mints,
   cpi_ok : {TRUE}]

Next ==
  \/ \E req \in CreateCredentialRequests : CreateCredential(req)
  \/ \E req \in ChangeAuthorizedSignersRequests : ChangeAuthorizedSigners(req)
  \/ \E req \in CreateSchemaRequests : CreateSchema(req)
  \/ \E req \in ChangeSchemaStatusRequests : ChangeSchemaStatus(req)
  \/ \E req \in CreateAttestationRequests : CreateAttestation(req)
  \/ \E req \in CloseAttestationRequests : CloseAttestation(req)
  \/ Tick
  \/ Airdrop

Spec == Init /\ [][Next]_vars

(***************************************************************************)
(* What a CreateAttestation request needs to be admitted, one condition    *)
(* per definition, stated over the registry and not through the processor. *)
(* Each definition is read only where the ones before it hold.             *)
(***************************************************************************)
CreateFramed(req) ==
  /\ req.instruction_data_ok
  /\ req.num_accounts = CreateAttestationAccounts
  /\ req.is_signer
  /\ req.system_program = SystemProgram
  /\ req.attestation = AttestationPda(req.credential, req.schema, req.nonce)

CreateAccountsKnown(req) ==
  /\ credentials[req.credential] # NoAccount
  /\ schemas[req.schema] # NoAccount

CreateSignerListed(req) ==
  \E i \in DOMAIN credentials[req.credential].authorized_signers :
     credentials[req.credential].authorized_signers[i] = req.authorized_signer

CreateSchemaOpen(req) == schemas[req.schema].is_paused = FALSE

CreateSchemaBound(req) == schemas[req.schema].credential = req.credential

CreateExpiryLive(req) == req.expiry = 0 \/ req.expiry >= clock

CreateAddressFree(req) ==
  /\ attestations[req.attestation].kind # "attestation"
  /\ lamports[Payer] >= RentMinimum

CreateDataConforms(req) == req.data \in ValidData

(***************************************************************************)
(* C1.  Dual authority.                                                    *)
(***************************************************************************)
\* every other condition of the request holds, the signer's membership aside
C1_OtherwiseAdmitted(req) ==
  /\ CreateFramed(req)
  /\ CreateAccountsKnown(req)
  /\ CreateSchemaOpen(req)
  /\ CreateSchemaBound(req)
  /\ CreateExpiryLive(req)
  /\ CreateAddressFree(req)
  /\ CreateDataConforms(req)

\* a validly signed request by an identity outside the credential's list is rejected
C1_Rejected ==
  \A req \in CreateAttestationRequests :
     (CreateFramed(req) /\ CreateAccountsKnown(req) /\ ~CreateSignerListed(req))
        => /\ process_create_attestation(req) = "SignerNotAuthorized"
           /\ create_attestation_check(req) = "validate_authorized_signer"

\* the step in which the authority's ChangeAuthorizedSigners puts the identity
\* on the list turns the rejected request into one that succeeds
C1_Retry ==
  (last'.op = "ChangeAuthorizedSigners" /\ last'.result = "Ok")
     => \A req \in CreateAttestationRequests :
           ( /\ req.credential = last'.req.credential
             /\ C1_OtherwiseAdmitted(req)
             /\ ~CreateSignerListed(req)
             /\ InList(last'.req.signers, req.authorized_signer) )
              => /\ process_create_attestation(req) = "SignerNotAuthorized"
                 /\ process_create_attestation(req)' = "Ok"

\* C1: CreateAttestation signed by an identity that is not in the credential's
\* authorized-signer set is rejected although the signature is valid, and once
\* the authority has added the identity with ChangeAuthorizedSigners the same
\* request by that identity succeeds.
C1_DualAuthority == []C1_Rejected /\ [][C1_Retry]_vars

\* a CreateAttestation by an unlisted identity has just been rejected
C1_Witness ==
  /\ last.op = "CreateAttestation"
  /\ last.result = "SignerNotAuthorized"
  /\ last.check = "validate_authorized_signer"

(***************************************************************************)
(* What a CloseAttestation request needs to be admitted.                   *)
(***************************************************************************)
CloseFramed(req) ==
  /\ req.num_accounts = CloseAttestationAccounts
  /\ req.is_signer
  /\ req.system_program = SystemProgram
  /\ req.attestation_program = AttestationProgram
  /\ req.attestation_writable
  /\ req.event_authority = EventAuthorityPda
  /\ req.cpi_ok

CloseAccountsKnown(req) ==
  /\ credentials[req.credential] # NoAccount
  /\ IsActive(req.attestation)

CloseSignerListed(req) ==
  \E i \in DOMAIN credentials[req.credential].authorized_signers :
     credentials[req.credential].authorized_signers[i] = req.authorized_signer

CloseAttestationBound(req) == attestations[req.attestation].credential = req.credential

CloseSumFits(req) == lamports[Payer] + lamports[req.attestation] <= U64_MAX

(***************************************************************************)
(* C2.  Token consistency at close.                                        *)
(***************************************************************************)
\* every other condition of the request holds, the token reference aside
C2_OtherwiseAdmitted(req) ==
  /\ CloseFramed(req)
  /\ CloseAccountsKnown(req)
  /\ CloseSignerListed(req)
  /\ CloseAttestationBound(req)
  /\ CloseSumFits(req)

\* the outcome the token check is to have for the stored and the supplied reference
C2_Expected(stored, supplied) ==
  IF stored # DefaultPubkey
  THEN IF supplied = stored THEN "Ok" ELSE "InvalidTokenAccount"
  ELSE IF supplied = None THEN "Ok" ELSE "InvalidTokenAccount"

C3_Step ==
  (last'.op = "CloseAttestation" /\ last'.result = "Ok")
     => LET a == last'.req.attestation
        IN /\ lamports'[a] = 0
           /\ lamports'[Payer] = lamports[Payer] + lamports[a]
           /\ lamports'[Payer] + lamports'[a] = lamports[Payer] + lamports[a]

\* C3: after every successful CloseAttestation the attestation's balance is zero
\* and the payer's balance is its balance before the close plus the
\* attestation's balance before the close, so the sum of the two is unchanged.
C3_Conservation == [][C3_Step]_vars

\* a close has just paid the attestation's balance out to the payer
C3_Witness ==
  /\ last.op = "CloseAttestation"
  /\ last.result = "Ok"
  /\ lamports[last.req.attestation] = 0
  /\ lamports[Payer] >= RentMinimum

(***************************************************************************)
(* C4.  Overflow at close.                                                 *)
(***************************************************************************)
\* a close whose sum does not fit is refused
C4_Refused ==
  \A req \in CloseAttestationRequests :
     ( /\ CloseFramed(req)
       /\ CloseAccountsKnown(req)
       /\ CloseSignerListed(req)
       /\ token_account_consistent(req.token_account, attestations[req.attestation])
       /\ CloseAttestationBound(req)
       /\ lamports[Payer] + lamports[req.attestation] > U64_MAX )
        => /\ process_close_attestation(req) = "ArithmeticOverflow"
           /\ close_attestation_check(req) = "checked_add"

\* the refused close leaves the attestations and every balance as they were
C4_Step ==
  (last'.op = "CloseAttestation" /\ last'.result = "ArithmeticOverflow")
     => /\ attestations' = attestations
        /\ lamports' = lamports
        /\ \E a \in AttestationAddrs :
              IsActive(a)' /\ lamports[Payer] + lamports[a] > U64_MAX

\* C4: when the payer's balance plus the attestation's balance exceeds the
\* maximum of the unsigned 64-bit balance, CloseAttestation fails instead of
\* wrapping, and the attestation is still active with both balances unchanged.
C4_Overflow == []C4_Refused /\ [][C4_Step]_vars

\* a close has just been refused because the sum does not fit
C4_Witness ==
  /\ last.op = "CloseAttestation"
  /\ last.result = "ArithmeticOverflow"
  /\ last.check = "checked_add"
  /\ lamports[Payer] = U64_MAX

(***************************************************************************)
(* C5 and C6.  The expiry of a new attestation.                            *)
(***************************************************************************)
\* every other condition of the request holds, the expiry aside
ExpiryOtherwiseAdmitted(req) ==
  /\ CreateFramed(req)
  /\ CreateAccountsKnown(req)
  /\ CreateSignerListed(req)
  /\ CreateSchemaOpen(req)
  /\ CreateSchemaBound(req)
  /\ CreateAddressFree(req)
  /\ CreateDataConforms(req)

\* C5 as stated: an expiry is accepted only when it is 0 or strictly greater
\* than the current time; every expiry with 0 < expiry <= current time, the
\* tie included, is rejected as stale.
C5_StrictlyFuture ==
  \A req \in CreateAttestationRequests :
     ExpiryOtherwiseAdmitted(req)
        => /\ (process_create_attestation(req) = "Ok")
                => (req.expiry = 0 \/ req.expiry > clock)
           /\ (0 < req.expiry /\ req.expiry <= clock)
                => process_create_attestation(req) = "InvalidAttestationData"

\* C5: CreateAttestation accepts an expiry only when it is 0 or not less than
\* the current time; every nonzero expiry strictly less than the current time
\* is rejected as stale with InvalidAttestationData, and an expiry equal to the
\* current time is accepted.
C5_NotPast ==
  \A req \in CreateAttestationRequests :
     ExpiryOtherwiseAdmitted(req)
        => IF req.expiry = 0 \/ req.expiry >= clock
           THEN process_create_attestation(req) = "Ok"
           ELSE /\ process_create_attestation(req) = "InvalidAttestationData"
                /\ create_attestation_check(req) = "expiry"

\* an attestation whose expiry is the current time has just been created
C5_Witness ==
  /\ last.op = "CreateAttestation"
  /\ last.result = "Ok"
  /\ last.req.expiry = clock
  /\ IsActive(last.req.attestation)

\* C6: at the expiry boundary, all other checks passing: expiry 0 succeeds,
\* current time + 1 succeeds, current time - 1 fails, and the exact tie with the
\* current time is accepted as valid.
C6_Boundary ==
  \A req \in CreateAttestationRequests :
     ExpiryOtherwiseAdmitted(req)
        => /\ req.expiry = 0 => process_create_attestation(req) = "Ok"
           /\ req.expiry = clock + 1 => process_create_attestation(req) = "Ok"
           /\ req.expiry = clock - 1 => process_create_attestation(req) # "Ok"
           /\ req.expiry = clock => process_create_attestation(req) = "Ok"

\* a create with the expiry one before the current time has just failed the
\* expiry check, and no attestation stands at the address
C6_Witness ==
  /\ last.op = "CreateAttestation"
  /\ last.result = "InvalidAttestationData"
  /\ last.check = "expiry"
  /\ \A a \in AttestationAddrs : ~IsActive(a)

(***************************************************************************)
(* C7.  Paused schemas.                                                    *)
(***************************************************************************)
\* every other condition of the request holds, the schema's flag aside
C7_OtherwiseAdmitted(req) ==
  /\ CreateFramed(req)
  /\ CreateAccountsKnown(req)
  /\ CreateSignerListed(req)
  /\ CreateSchemaBound(req)
  /\ CreateExpiryLive(req)
  /\ CreateAddressFree(req)
  /\ CreateDataConforms(req)

\* no request against a paused schema succeeds, and one that reaches the flag
\* fails with SchemaPaused
C7_Refused ==
  \A req \in CreateAttestationRequests :
     (CreateAccountsKnown(req) /\ schemas[req.schema].is_paused)
        => /\ process_create_attestation(req) # "Ok"
           /\ (CreateFramed(req) /\ CreateSignerListed(req))
                => /\ process_create_attestation(req) = "SchemaPaused"
                   /\ create_attestation_check(req) = "is_paused"

C7_Step ==
  \* the refused request creates nothing
  /\ (last'.op = "CreateAttestation" /\ last'.result = "SchemaPaused")
        => attestations' = attestations
  \* whatever is created is created under a schema that is not paused
  /\ (last'.op = "CreateAttestation" /\ last'.result = "Ok")
        => /\ schemas[last'.req.schema].is_paused = FALSE
           /\ attestations' # attestations
  /\ (\E a \in AttestationAddrs : IsActive(a)' /\ attestations'[a] # attestations[a])
        => /\ last'.op = "CreateAttestation"
           /\ schemas[last'.req.schema].is_paused = FALSE
  \* the step that sets the flag back to false lets the same request succeed
  /\ (last'.op = "ChangeSchemaStatus" /\ last'.result = "Ok" /\ ~last'.req.is_paused)
        => \A req \in CreateAttestationRequests :
              ( /\ req.schema = last'.req.schema
                /\ C7_OtherwiseAdmitted(req)
                /\ schemas[req.schema].is_paused )
                 => /\ process_create_attestation(req) = "SchemaPaused"
                    /\ process_create_attestation(req)' = "Ok"

\* C7: CreateAttestation against a schema whose paused flag is true fails with
\* SchemaPaused and creates no attestation; the same request succeeds once
\* ChangeSchemaStatus has set the flag back to false; no attestation is ever
\* created while its schema is paused.
C7_Paused == []C7_Refused /\ [][C7_Step]_vars

\* a create against a paused schema has just been refused
C7_Witness ==
  /\ last.op = "CreateAttestation"
  /\ last.result = "SchemaPaused"
  /\ last.check = "is_paused"
  /\ \E s \in SchemaAddrs : OwnedSchema(s) /\ schemas[s].is_paused

(***************************************************************************)
(* C8.  Data that does not conform to the schema's layout.                 *)
(***************************************************************************)
\* every other condition of the request holds, the data aside
C8_OtherwiseAdmitted(req) ==
  /\ CreateFramed(req)
  /\ CreateAccountsKnown(req)
  /\ CreateSignerListed(req)
  /\ CreateSchemaOpen(req)
  /\ CreateSchemaBound(req)
  /\ CreateExpiryLive(req)
  /\ CreateAddressFree(req)

\* data of each of the four kinds is refused by the data validation
C8_Refused ==
  \A req \in CreateAttestationRequests :
     ( /\ C8_OtherwiseAdmitted(req)
       /\ \/ req.data \in ShortData
          \/ req.data \in TrailingData
          \/ req.data \in GarbageData
          \/ req.data \in OverclaimData )
        => /\ process_create_attestation(req) = "InvalidAttestationData"
           /\ create_attestation_check(req) = "validate_data"

\* the refused create leaves no account at the derived address
C8_Step ==
  ( /\ last'.op = "CreateAttestation"
    /\ last'.result = "InvalidAttestationData"
    /\ last'.check = "validate_data" )
     => /\ attestations' = attestations
        /\ lamports' = lamports
        /\ \A req \in CreateAttestationRequests :
              create_attestation_check(req) = "validate_data"
                 => ~IsActive(AttestationPda(req.credential, req.schema, req.nonce))'

\* C8: CreateAttestation whose data does not conform to the schema's layout
\* (too short for the layout, bytes left over after the last field, a start
\* that is not the layout's first field, a length prefix claiming more bytes
\* than remain) fails with InvalidAttestationData, and afterwards no
\* attestation account exists at the derived address.
C8_Malformed == []C8_Refused /\ [][C8_Step]_vars

\* a create has just been refused by the data validation, and its address is empty
C8_Witness ==
  /\ last.op = "CreateAttestation"
  /\ last.result = "InvalidAttestationData"
  /\ last.check = "validate_data"
  /\ \A a \in AttestationAddrs : ~IsActive(a) /\ lamports[a] = 0

(***************************************************************************)
(* C9.  The record a successful CreateAttestation stores.                  *)
(***************************************************************************)
C9_Step ==
  (last'.op = "CreateAttestation" /\ last'.result = "Ok")
     => LET req == last'.req
            stored == attestations'[AttestationPda(req.credential, req.schema, req.nonce)]
        IN /\ stored.kind = "attestation"
           /\ stored.data = req.data
           /\ stored.credential = req.credential
           /\ stored.schema = req.schema
           /\ stored.expiry = req.expiry
           /\ stored.nonce = req.nonce
           /\ stored.signer = req.authorized_signer
           /\ req.token_account = None => stored.token_account = DefaultPubkey

\* C9: after a successful CreateAttestation the stored attestation has the
\* submitted data, the supplied credential and schema, the submitted expiry and
\* nonce, the authorized signer that signed the request as its signer, and the
\* default token reference when no token reference was supplied.
C9_Stored == [][C9_Step]_vars

\* an attestation without token reference, signed by a signer that is not the
\* credential's authority, has just been stored
C9_Witness ==
  /\ last.op = "CreateAttestation"
  /\ last.result = "Ok"
  /\ last.req.token_account = None
  /\ last.req.authorized_signer # Authority
  /\ attestations[last.req.attestation].token_account = DefaultPubkey
  /\ attestations[last.req.attestation].signer = last.req.authorized_signer

(***************************************************************************)
(* C10.  The life of an attestation triple.                                *)
(***************************************************************************)
\* C10 as stated: a triple moves only along absent -> active -> closed, and
\* closed is terminal: once closed, no attestation is active there again.
C10_ClosedIsTerminal ==
  [][\A a \in AttestationAddrs :
        /\ attestations[a] = NoAccount => (attestations'[a] = NoAccount \/ IsActive(a)')
        /\ IsActive(a) => (attestations'[a] = attestations[a]
                             \/ attestations'[a] = ClosedAccount)
        /\ attestations[a] = ClosedAccount => attestations'[a] = ClosedAccount]_vars

\* a closed triple admits the CreateAttestation a triple never used admits
C10_Reopens ==
  \A req \in CreateAttestationRequests :
     ( /\ attestations[req.attestation] = ClosedAccount
       /\ C8_OtherwiseAdmitted(req)
       /\ CreateDataConforms(req) )
        => process_create_attestation(req) = "Ok"

C10_Step ==
  /\ \A a \in AttestationAddrs :
        \* absent: stays absent or is created
        /\ attestations[a] = NoAccount
              => \/ attestations'[a] = NoAccount
                 \/ /\ IsActive(a)'
                    /\ last'.op = "CreateAttestation" /\ last'.result = "Ok"
                    /\ last'.req.attestation = a
        \* active: stays as it is or is closed
        /\ IsActive(a)
              => \/ attestations'[a] = attestations[a]
                 \/ /\ attestations'[a] = ClosedAccount
                    /\ last'.op = "CloseAttestation" /\ last'.result = "Ok"
                    /\ last'.req.attestation = a
        \* closed: stays closed or is created anew
        /\ attestations[a] = ClosedAccount
              => \/ attestations'[a] = ClosedAccount
                 \/ /\ IsActive(a)'
                    /\ last'.op = "CreateAttestation" /\ last'.result = "Ok"
                    /\ last'.req.attestation = a
  \* a successful close closes an active attestation
  /\ (last'.op = "CloseAttestation" /\ last'.result = "Ok")
        => /\ IsActive(last'.req.attestation)
           /\ attestations'[last'.req.attestation] = ClosedAccount

\* C10: a triple moves only absent -> active, by a successful CreateAttestation,
\* and active -> closed, by a successful CloseAttestation; closed is not
\* terminal: no account is left at a closed triple, and a later
\* CreateAttestation for the same triple that passes every check makes an
\* attestation active there again; nothing else does, and a triple never
\* returns to absent.
C10_Lifecycle == []C10_Reopens /\ [][C10_Step]_vars

\* an attestation has just been closed and its triple admits no close any more
C10_Witness ==
  /\ last.op = "CloseAttestation"
  /\ last.result = "Ok"
  /\ attestations[last.req.attestation] = ClosedAccount
  /\ \A req \in CloseAttestationRequests : process_close_attestation(req) # "Ok"

(***************************************************************************)
(* C11.  An active attestation is never rewritten.                         *)
(***************************************************************************)
C11_Step ==
  \A a \in AttestationAddrs :
     (IsActive(a) /\ IsActive(a)')
        => /\ attestations'[a].nonce = attestations[a].nonce
           /\ attestations'[a].credential = attestations[a].credential
           /\ attestations'[a].schema = attestations[a].schema
           /\ attestations'[a].data = attestations[a].data
           /\ attestations'[a].signer = attestations[a].signer
           /\ attestations'[a].expiry = attestations[a].expiry
           /\ attestations'[a].token_account = attestations[a].token_account

\* C11: between its creation and its close an active attestation's nonce,
\* credential, schema, data, signer, expiry and token reference never change,
\* whatever operation runs in between.
C11_Immutable == [][C11_Step]_vars

\* the signer set was replaced, or the schema paused, under an active attestation
C11_Witness ==
  /\ last.op \in {"ChangeAuthorizedSigners", "ChangeSchemaStatus"}
  /\ last.result = "Ok"
  /\ \E a \in AttestationAddrs :
        /\ IsActive(a)
        /\ \/ ~InList(credentials[attestations[a].credential].authorized_signers,
                      attestations[a].signer)
           \/ schemas[attestations[a].schema].is_paused

(***************************************************************************)
(* C12.  One attestation per triple.                                       *)
(***************************************************************************)
\* the attestation at an address records the triple the address derives from,
\* so two active attestations of one triple are one account
C12_OnePerTriple ==
  /\ \A a \in AttestationAddrs :
        IsActive(a)
           => a = AttestationPda(attestations[a].credential, attestations[a].schema,
                                 attestations[a].nonce)
  /\ \A a, b \in AttestationAddrs :
        ( /\ IsActive(a) /\ IsActive(b)
          /\ attestations[a].credential = attestations[b].credential
          /\ attestations[a].schema = attestations[b].schema
          /\ attestations[a].nonce = attestations[b].nonce )
           => a = b

\* a create for a triple that has an active attestation fails
C12_Refused ==
  \A req \in CreateAttestationRequests :
     IsActive(AttestationPda(req.credential, req.schema, req.nonce))
        => /\ process_create_attestation(req) # "Ok"
           /\ ( /\ CreateFramed(req)
                /\ CreateAccountsKnown(req)
                /\ CreateSignerListed(req)
                /\ CreateSchemaOpen(req)
                /\ CreateSchemaBound(req)
                /\ CreateExpiryLive(req) )
                 => create_attestation_check(req) = "create_pda_account"

\* and leaves every attestation as it was
C12_Step ==
  /\ ( /\ last'.op = "CreateAttestation"
       /\ last'.result # "Ok"
       /\ last'.check = "create_pda_account" )
        => attestations' = attestations /\ lamports' = lamports
  /\ \A a \in AttestationAddrs :
        (IsActive(a) /\ last'.op = "CreateAttestation") => attestations'[a] = attestations[a]

\* C12: at most one active attestation exists for a (credential, schema, nonce)
\* triple: a CreateAttestation for a triple that already has an active
\* attestation fails and leaves the existing attestation unchanged.
C12_Unique == [](C12_OnePerTriple /\ C12_Refused) /\ [][C12_Step]_vars

\* a create for an occupied triple has just been refused
C12_Witness ==
  /\ last.op = "CreateAttestation"
  /\ last.result # "Ok"
  /\ last.check = "create_pda_account"
  /\ \E a \in AttestationAddrs : IsActive(a)

(***************************************************************************)
(* C13.  ChangeAuthorizedSigners.                                          *)
(***************************************************************************)
\* the list names some identity twice
C13_Repeats(list) == Cardinality({list[i] : i \in DOMAIN list}) < Len(list)

C13_Guard ==
  \A req \in ChangeAuthorizedSignersRequests :
     credentials[req.credential] # NoAccount
        => \* only the credential's authority, signing, succeeds
           /\ process_change_authorized_signers(req) = "Ok"
                => (req.is_signer /\ req.authority = credentials[req.credential].authority)
           \* a list with a repeated identity is rejected
           /\ C13_Repeats(req.signers) => process_change_authorized_signers(req) # "Ok"
           \* every other list of the authority is accepted, the empty one too
           /\ ( /\ req.is_signer
                /\ req.authority = credentials[req.credential].authority
                /\ ~C13_Repeats(req.signers) )
                 => process_change_authorized_signers(req) = "Ok"

C13_NoDuplicates ==
  \A c \in CredentialAddrs :
     credentials[c] # NoAccount => ~C13_Repeats(credentials[c].authorized_signers)

C13_Step ==
  (last'.op = "ChangeAuthorizedSigners" /\ last'.result = "Ok")
     => LET c == last'.req.credential
        IN /\ credentials'[c].authorized_signers = last'.req.signers
           /\ credentials'[c].authority = credentials[c].authority
           /\ credentials'[c].name = credentials[c].name
           /\ last'.req.authority = credentials[c].authority

C14_ByAuthority(req) ==
  /\ req.is_signer
  /\ credentials[req.credential] # NoAccount
  /\ req.authorized_signer = credentials[req.credential].authority

C14_Listed(req) ==
  \E i \in DOMAIN credentials[req.credential].authorized_signers :
     credentials[req.credential].authorized_signers[i] = req.authorized_signer

C15_Guard ==
  \A req \in ChangeSchemaStatusRequests :
     (credentials[req.credential] # NoAccount /\ schemas[req.schema] # NoAccount)
        => /\ process_change_schema_status(req) = "Ok"
                => /\ req.is_signer
                   /\ schemas[req.schema].credential = req.credential
                   /\ req.authority = credentials[req.credential].authority
           /\ req.authority # credentials[req.credential].authority
                => process_change_schema_status(req) # "Ok"

\* nothing but the paused flag of the one schema changes
C15_Frame ==
  /\ (last'.op = "ChangeSchemaStatus" /\ last'.result = "Ok")
        => LET s == last'.req.schema
           IN /\ schemas'[s].kind = schemas[s].kind
              /\ schemas'[s].credential = schemas[s].credential
              /\ schemas'[s].name = schemas[s].name
              /\ schemas'[s].version = schemas[s].version
              /\ schemas'[s].layout = schemas[s].layout
              /\ \A t \in SchemaAddrs \ {s} : schemas'[t] = schemas[t]
              /\ credentials' = credentials
              /\ attestations' = attestations
              /\ lamports' = lamports
  \* no other operation changes a schema that exists
  /\ \A s \in SchemaAddrs :
        (schemas[s] # NoAccount /\ schemas'[s] # schemas[s])
           => /\ last'.op = "ChangeSchemaStatus"
              /\ last'.result = "Ok"
              /\ last'.req.schema = s

C15_Step ==
  /\ C15_Frame
  /\ (last'.op = "ChangeSchemaStatus" /\ last'.result = "Ok")
        => schemas'[last'.req.schema].is_paused = last'.req.is_paused

CrossCreateCredentialRequests ==
  [authority : {Authority}, name : CredentialNames \cup OtherCredentialNames,
   signers : {<<id>> : id \in Identities}]

CrossCreateSchemaRequests ==
  [is_signer : {TRUE}, authority : {Authority}, credential : CredentialAddrs,
   name : SchemaNames, version : SchemaVersions, layout : {TestLayout}]

CrossChangeSchemaStatusRequests ==
  [is_signer : {TRUE}, authority : Identities, credential : CredentialAddrs,
   schema : SchemaAddrs, is_paused : BOOLEAN]

\* the attestation addresses of a credential and a schema of its own
CrossAttestations ==
  {AttestationPda(c, SchemaPda(c, n, v), x) :
     c \in CredentialAddrs, n \in SchemaNames, v \in SchemaVersions, x \in Nonces}

CrossCreateProper ==
  {[instruction_data_ok |-> TRUE,
    num_accounts |-> CreateAttestationAccounts,
    is_signer |-> TRUE,
    system_program |-> SystemProgram,
    authorized_signer |-> id,
    credential |-> c,
    schema |-> s,
    attestation |-> AttestationPda(c, s, x),
    nonce |-> x,
    data |-> d,
    expiry |-> 0,
    token_account |-> None] :
     id \in Identities, c \in CredentialAddrs, s \in SchemaAddrs, x \in Nonces, d \in ValidData}

CrossCreateFaulty ==
  UNION {{[r EXCEPT !.instruction_data_ok = FALSE],
          [r EXCEPT !.num_accounts = CreateAttestationAccounts - 1],
          [r EXCEPT !.is_signer = FALSE],
          [r EXCEPT !.system_program = OtherProgram],
          [r EXCEPT !.attestation = CHOOSE a \in AttestationAddrs : a # r.attestation],
          [r EXCEPT !.expiry = clock - 1]}
           \cup {[r EXCEPT !.data = d] : d \in GarbageData} :
         r \in CrossCreateProper}

CrossCreateAttestationRequests == CrossCreateProper \cup CrossCreateFaulty

CrossCloseProper ==
  {[num_accounts |-> CloseAttestationAccounts,
    is_signer |-> TRUE,
    system_program |-> SystemProgram,
    attestation_program |-> AttestationProgram,
    authorized_signer |-> id,
    credential |-> c,
    attestation |-> a,
    attestation_writable |-> TRUE,
    event_authority |-> EventAuthorityPda,
    token_account |-> None,
    cpi_ok |-> TRUE] :
     id \in Identities, c \in CredentialAddrs, a \in CrossAttestations}

CrossCloseFaulty ==
  UNION {{[r EXCEPT !.num_accounts = CloseAttestationAccounts - 1],
          [r EXCEPT !.is_signer = FALSE],
          [r EXCEPT !.system_program = OtherProgram],
          [r EXCEPT !.attestation_program = OtherProgram],
          [r EXCEPT !.attestation_writable = FALSE],
          [r EXCEPT !.event_authority = OtherProgram],
          [r EXCEPT !.cpi_ok = FALSE]} :
         r \in CrossCloseProper}

CrossCloseAttestationRequests == CrossCloseProper \cup CrossCloseFaulty

NextCross ==
  \/ \E req \in CrossCreateCredentialRequests : CreateCredential(req)
  \/ \E req \in CrossCreateSchemaRequests : CreateSchema(req)
  \/ \E req \in CrossChangeSchemaStatusRequests : ChangeSchemaStatus(req)
  \/ \E req \in CrossCreateAttestationRequests : CreateAttestation(req)
  \/ \E req \in CrossCloseAttestationRequests : CloseAttestation(req)
  \/ Airdrop

SpecCross == Init /\ [][NextCross]_vars

(***************************************************************************)
(* C16.  The schema's credential at CreateAttestation.                     *)
(***************************************************************************)
\* C16: CreateAttestation is rejected with InvalidCredential whenever the
\* schema's recorded credential differs from the credential account supplied,
\* even when the signer is authorized on the supplied credential and the schema
\* is program-owned and not paused.
C16_SchemaBinding ==
  \A req \in CrossCreateAttestationRequests :
     ( /\ credentials[req.credential] # NoAccount
       /\ schemas[req.schema] # NoAccount
       /\ schemas[req.schema].credential # req.credential )
        => /\ process_create_attestation(req) # "Ok"
           /\ ( /\ req.instruction_data_ok
                /\ req.num_accounts = CreateAttestationAccounts
                /\ req.is_signer
                /\ req.system_program = SystemProgram
                /\ CreateSignerListed(req)
                /\ CreateSchemaOpen(req) )
                 => /\ process_create_attestation(req) = "InvalidCredential"
                    /\ create_attestation_check(req) = "schema_credential"

\* a create pairing a credential with another credential's schema has just been
\* refused, and nothing stands at the address of the pairing
C16_Witness ==
  /\ last.op = "CreateAttestation"
  /\ last.result = "InvalidCredential"
  /\ last.check = "schema_credential"
  /\ \A a \in AttestationAddrs \ CrossAttestations : attestations[a] = NoAccount

(***************************************************************************)
(* C17.  The attestation's credential at CloseAttestation.                 *)
(***************************************************************************)
C17_Refused ==
  \A req \in CrossCloseAttestationRequests :
     ( /\ credentials[req.credential] # NoAccount
       /\ IsActive(req.attestation)
       /\ attestations[req.attestation].credential # req.credential )
        => /\ process_close_attestation(req) # "Ok"
           /\ ( /\ req.num_accounts = CloseAttestationAccounts
                /\ req.is_signer
                /\ req.system_program = SystemProgram
                /\ req.attestation_program = AttestationProgram
                /\ req.attestation_writable
                /\ CloseSignerListed(req)
                /\ req.token_account = None
                /\ attestations[req.attestation].token_account = DefaultPubkey )
                 => /\ process_close_attestation(req) = "InvalidCredential"
                    /\ close_attestation_check(req) = "attestation_credential"

\* whoever closes an attestation is listed on the attestation's own credential
C17_Step ==
  (last'.op = "CloseAttestation" /\ last'.result = "Ok")
     => LET a == attestations[last'.req.attestation]
        IN /\ a.credential = last'.req.credential
           /\ \E i \in DOMAIN credentials[a.credential].authorized_signers :
                 credentials[a.credential].authorized_signers[i]
                    = last'.req.authorized_signer

\* C17: CloseAttestation is rejected with InvalidCredential whenever the
\* attestation's recorded credential differs from the supplied credential, so
\* a signer authorized only on credential B never closes an attestation that
\* belongs to credential A.
C17_AttestationBinding == []C17_Refused /\ [][C17_Step]_vars

\* a close naming another credential than the attestation's has just been refused
C17_Witness ==
  /\ last.op = "CloseAttestation"
  /\ last.result = "InvalidCredential"
  /\ last.check = "attestation_credential"
  /\ \E a \in AttestationAddrs : IsActive(a)

(***************************************************************************)
(* C18.  What CloseAttestation compares the attestation with.              *)
(***************************************************************************)
\* the request passes every check of the close, whatever schemas there are
C18_OtherwiseAdmitted(req) ==
  /\ CloseFramed(req)
  /\ CloseAccountsKnown(req)
  /\ CloseSignerListed(req)
  /\ CloseSumFits(req)
  /\ req.token_account = None
  /\ attestations[req.attestation].token_account = DefaultPubkey

\* the statement as written: a close is rejected when the schema account that
\* comes with it is not the attestation's recorded schema, or the credential
\* account is not the recorded credential
C18_BothBindings ==
  \A req \in CrossCloseAttestationRequests : \A s \in SchemaAddrs :
     ( /\ IsActive(req.attestation)
       /\ schemas[s] # NoAccount
       /\ \/ attestations[req.attestation].schema # s
          \/ attestations[req.attestation].credential # req.credential )
        => process_close_attestation(req) # "Ok"

\* C18: CloseAttestation re-checks the credential binding of the attestation
\* and no schema binding: it is rejected when the recorded credential is not
\* the supplied one, and a close that passes its checks succeeds whatever
\* schema accounts exist and whatever their state, the recorded schema being
\* compared with nothing.
C18_CredentialOnly ==
  \A req \in CrossCloseAttestationRequests :
     /\ ( /\ IsActive(req.attestation)
          /\ attestations[req.attestation].credential # req.credential )
           => process_close_attestation(req) # "Ok"
     /\ ( /\ C18_OtherwiseAdmitted(req)
          /\ attestations[req.attestation].credential = req.credential )
           => process_close_attestation(req) = "Ok"

\* an attestation has just been closed while its schema is paused and a schema
\* other than the recorded one exists
C18_Witness ==
  /\ last.op = "CloseAttestation"
  /\ last.result = "Ok"
  /\ schemas[last.events[1].schema].is_paused
  /\ \E s \in SchemaAddrs : s # last.events[1].schema /\ schemas[s] # NoAccount

(***************************************************************************)
(* C19.  The closure event.                                                *)
(***************************************************************************)
\* every condition of the close holds, the two event conditions aside
C19_OtherwiseAdmitted(req) ==
  /\ req.num_accounts = CloseAttestationAccounts
  /\ req.is_signer
  /\ req.system_program = SystemProgram
  /\ req.attestation_program = AttestationProgram
  /\ req.attestation_writable
  /\ CloseAccountsKnown(req)
  /\ CloseSignerListed(req)
  /\ CloseAttestationBound(req)
  /\ CloseSumFits(req)
  /\ req.token_account = None
  /\ attestations[req.attestation].token_account = DefaultPubkey

C19_Rejected ==
  \A req \in CrossCloseAttestationRequests :
     C19_OtherwiseAdmitted(req)
        => /\ req.event_authority # EventAuthorityPda
              => process_close_attestation(req) = "InvalidEventAuthority"
           /\ (req.event_authority = EventAuthorityPda /\ ~req.cpi_ok)
              => process_close_attestation(req) = "EventEmissionFailed"

C19_Step ==
  /\ (last'.op = "CloseAttestation" /\ last'.result = "Ok")
        => /\ IsActive(last'.req.attestation)
           /\ last'.events
                 = << [discriminator |-> "CloseAttestationEvent",
                       schema |-> attestations[last'.req.attestation].schema,
                       attestation_data |-> attestations[last'.req.attestation].data] >>
  /\ (last'.op = "CloseAttestation" /\ last'.result # "Ok")
        => UNCHANGED <<attestations, lamports>>
  /\ \A a \in AttestationAddrs :
        ( \/ (IsActive(a) /\ attestations'[a] # attestations[a])
          \/ lamports'[a] < lamports[a] )
           => /\ last'.op = "CloseAttestation"
              /\ last'.result = "Ok"
              /\ last'.req.attestation = a
              /\ Len(last'.events) = 1
              /\ last'.req.event_authority = EventAuthorityPda
              /\ last'.req.cpi_ok

\* C19: every successful CloseAttestation emits exactly one closure event with
\* the schema reference and the full data the attestation had before the close;
\* a close whose event-authority account is not the reserved address, or whose
\* event emission fails, is rejected as a whole, so that no attestation is
\* closed and no balance moved without the matching event.
C19_ClosureEvent == []C19_Rejected /\ [][C19_Step]_vars

\* a close with a wrong event-authority account has just been refused and the
\* attestation stands with its balance
C19_Witness ==
  /\ last.op = "CloseAttestation"
  /\ last.result = "InvalidEventAuthority"
  /\ last.check = "event_authority"
  /\ \E a \in CrossAttestations : IsActive(a) /\ lamports[a] = RentMinimum

(***************************************************************************)
(* C20.  Errors leave the registry as it was.                              *)
(***************************************************************************)
\* C20: an operation that ends in any error leaves the whole registry as it
\* was: no credential, schema, attestation or balance changes and no event is
\* recorded.
C20_Atomic ==
  [][ last'.result # "Ok"
        => /\ credentials' = credentials
           /\ schemas' = schemas
           /\ attestations' = attestations
           /\ lamports' = lamports
           /\ "events" \notin DOMAIN last' ]_vars

\* a close whose event emission failed has just been refused, the attestation
\* stands and the payer has what it had
C20_Witness ==
  /\ last.op = "CloseAttestation"
  /\ last.result = "EventEmissionFailed"
  /\ last.check = "invoke_signed"
  /\ \E a \in CrossAttestations : IsActive(a) /\ lamports[a] = RentMinimum

(***************************************************************************)
(* Address derivation at the level of bytes.  find_program_address hashes  *)
(* the seeds one after the other, with no separator and no length, and     *)
(* then the bump byte; SHA-256 is taken as collision-free, so that an      *)
(* address is the byte string that is hashed.                              *)
(***************************************************************************)
\* longest credential or schema name, in bytes
MaxNameLen == 2

\* a Pubkey is 32 bytes
PubkeyBytes == 32

\* the values a byte takes in the samples
SeedByteSamples == {1, 2}

\* the bump seeds find_program_address may settle on
BumpSamples == {254, 255}

PubkeySamples == {[i \in 1 .. PubkeyBytes |-> b] : b \in SeedByteSamples}

NameSamples == UNION {[1 .. k -> SeedByteSamples] : k \in 0 .. MaxNameLen}

\* b"credential", b"schema", b"attestation"
CREDENTIAL_SEED == <<99, 114, 101, 100, 101, 110, 116, 105, 97, 108>>
SCHEMA_SEED == <<115, 99, 104, 101, 109, 97>>
ATTESTATION_SEED == <<97, 116, 116, 101, 115, 116, 97, 116, 105, 111, 110>>

\* the seeds without the kind tag
seeds_untagged(input) ==
  IF input.kind = "credential"
  THEN <<input.authority, input.name>>
  ELSE IF input.kind = "schema"
       THEN <<input.credential, input.name, <<input.version>>>>
       ELSE <<input.credential, input.schema, input.nonce>>

\* the seeds of a credential, a schema (the version is one byte) and an attestation
seeds(input) ==
  IF input.kind = "credential"
  THEN <<CREDENTIAL_SEED, input.authority, input.name>>
  ELSE IF input.kind = "schema"
       THEN <<SCHEMA_SEED, input.credential, input.name, <<input.version>>>>
       ELSE <<ATTESTATION_SEED, input.credential, input.schema, input.nonce>>

RECURSIVE Concat(_)
Concat(seqs) == IF seqs = <<>> THEN <<>> ELSE Head(seqs) \o Concat(Tail(seqs))

\* the address found for the seeds with the bump the search settles on
find_program_address(seed_list, bump) == Concat(seed_list) \o <<bump>>

DeriveInputs ==
  [kind : {"credential"}, authority : PubkeySamples, name : NameSamples]
    \cup [kind : {"schema"}, credential : PubkeySamples, name : NameSamples,
          version : SeedByteSamples]
    \cup [kind : {"attestation"}, credential : PubkeySamples, schema : PubkeySamples,
          nonce : PubkeySamples]

\* the registry is empty and a derivation is about to be asked for
InitDerive ==
  /\ credentials = [a \in CredentialAddrs |-> NoAccount]
  /\ schemas = [a \in SchemaAddrs |-> NoAccount]
  /\ attestations = [a \in AttestationAddrs |-> NoAccount]
  /\ lamports = [a \in {Payer} \cup AttestationAddrs |-> 0]
  /\ clock = ClockGenesis
  /\ \E input \in DeriveInputs, bump \in BumpSamples :
        last = [op |-> "DeriveInput", input |-> input, bump |-> bump]

Derive ==
  /\ last.op = "DeriveInput"
  /\ last' = [op |-> "Derive", input |-> last.input, bump |-> last.bump,
              address |-> find_program_address(seeds(last.input), last.bump)]
  /\ UNCHANGED <<registry, clock>>

NextDerive == Derive

SpecDerive == InitDerive /\ [][NextDerive]_vars

(***************************************************************************)
(* C21.  Derived addresses do not collide.                                 *)
(***************************************************************************)
\* C21: address derivation is injective in (kind tag, parent keys,
\* disambiguator): an address found for one input is found for no other input,
\* whatever bump the other derivation settles on, so a credential, a schema and
\* an attestation never share an address and two versions of a schema under one
\* credential and one name have different addresses.
C21_Injective ==
  last.op = "Derive"
     => /\ last.address = find_program_address(seeds(last.input), last.bump)
        /\ \A other \in DeriveInputs : \A bump \in BumpSamples :
              find_program_address(seeds(other), bump) = last.address
                 => other = last.input
        /\ \A other \in DeriveInputs :
              other.kind # last.input.kind
                 => find_program_address(seeds(other), last.bump) # last.address
        /\ \A v \in SeedByteSamples :
              (last.input.kind = "schema" /\ v # last.input.version)
                 => find_program_address(seeds([last.input EXCEPT !.version = v]),
                                         last.bump) # last.address

\* the address of a schema with a name has been derived, and the bytes of its
\* name and version, read as one name, are the name of a credential
C21_Witness ==
  /\ last.op = "Derive"
  /\ last.input.kind = "schema"
  /\ Len(last.input.name) = MaxNameLen - 1
  /\ last.input.name \o <<last.input.version>> \in NameSamples

(***************************************************************************)
(* The layout codec as a pure function: values are encoded under a layout  *)
(* and the buffer is validated against it.                                 *)
(***************************************************************************)
\* most fields of a layout
MaxFields == 2
\* longest string value, in bytes
MaxStringLen == 1
\* longest buffer handed to the validation as it is
MaxBufferLen == 5

\* the values a byte takes in the samples
CodecByteSamples == {0, 1}

Layouts == UNION {[1 .. k -> {U8, String}] : k \in 0 .. MaxFields}

\* a value is its bytes: one byte for a u8, the characters for a String
FieldValues == UNION {[1 .. k -> CodecByteSamples] : k \in 0 .. MaxStringLen} 
                 \cup [1 .. 1 -> CodecByteSamples]

Conforms(layout, values) ==
  /\ Len(values) = Len(layout)
  /\ \A i \in DOMAIN layout : layout[i] = U8 => Len(values[i]) = 1

ConformingValues(layout) ==
  {values \in [1 .. Len(layout) -> FieldValues] : Conforms(layout, values)}

Buffers == UNION {[1 .. k -> CodecByteSamples] : k \in 0 .. MaxBufferLen}

\* the length prefix is written most significant byte first
encode_u32_big_endian(n) ==
  <<(n \div 16777216) % 256, (n \div 65536) % 256, (n \div 256) % 256, n % 256>>

\* a u32 in little-endian
encode_u32(n) ==
  <<n % 256, (n \div 256) % 256, (n \div 65536) % 256, (n \div 16777216) % 256>>

encode_field(code, value) ==
  IF code = U8 THEN value ELSE encode_u32(Len(value)) \o value

\* the concatenation of each field's encoding in layout order
RECURSIVE encode(_, _)
encode(layout, values) ==
  IF layout = <<>>
  THEN <<>>
  ELSE encode_field(Head(layout), Head(values)) \o encode(Tail(layout), Tail(values))

\* the fewest bytes a buffer of the layout has: the fixed widths and the length prefixes
RECURSIVE min_width(_)
min_width(layout) ==
  IF layout = <<>>
  THEN 0
  ELSE (IF Head(layout) = U8 THEN 1 ELSE 4) + min_width(Tail(layout))

\* the registry is empty and a layout is given with values or with a buffer
InitCodec ==
  /\ credentials = [a \in CredentialAddrs |-> NoAccount]
  /\ schemas = [a \in SchemaAddrs |-> NoAccount]
  /\ attestations = [a \in AttestationAddrs |-> NoAccount]
  /\ lamports = [a \in {Payer} \cup AttestationAddrs |-> 0]
  /\ clock = ClockGenesis
  /\ \/ \E layout \in Layouts : \E values \in ConformingValues(layout) :
           last = [op |-> "Values", layout |-> layout, values |-> values]
     \/ \E layout \in Layouts : \E buffer \in Buffers :
           last = [op |-> "Buffer", layout |-> layout, bytes |-> buffer]

Encode ==
  /\ last.op = "Values"
  /\ last' = [op |-> "Encode", layout |-> last.layout, values |-> last.values,
              bytes |-> encode(last.layout, last.values)]
  /\ UNCHANGED <<registry, clock>>

ValidateEncoded ==
  /\ last.op = "Encode"
  /\ last' = [op |-> "ValidateEncoded", layout |-> last.layout, values |-> last.values,
              bytes |-> last.bytes, ok |-> validate_data(last.layout, last.bytes)]
  /\ UNCHANGED <<registry, clock>>

ValidateBuffer ==
  /\ last.op = "Buffer"
  /\ last' = [op |-> "ValidateBuffer", layout |-> last.layout, bytes |-> last.bytes,
              ok |-> validate_data(last.layout, last.bytes)]
  /\ UNCHANGED <<registry, clock>>

NextCodec == Encode \/ ValidateEncoded \/ ValidateBuffer

SpecCodec == InitCodec /\ [][NextCodec]_vars

(***************************************************************************)
(* C22.  Layout round trip.                                                *)
(***************************************************************************)
\* C22: the encoding of values that conform to a layout validates against the
\* layout, and a buffer shorter than the minimum width of the layout does not.
C22_RoundTrip ==
  /\ last.op = "ValidateEncoded"
        => /\ last.ok
           /\ Len(last.bytes) >= min_width(last.layout)
  /\ (last.op = "ValidateBuffer" /\ Len(last.bytes) < min_width(last.layout))
        => ~last.ok

\* the encoding of a string of one character and a u8 has been validated
C22_Witness ==
  /\ last.op = "ValidateEncoded"
  /\ last.layout = TestLayout
  /\ Len(last.values[1]) = 1
  /\ last.ok
  /\ Len(last.bytes) = 6

(***************************************************************************)
(* The TypeScript client: createCompressionLookupTable.                    *)
(***************************************************************************)
\* most additional accounts handed to createCompressionLookupTable
MaxAdditional == 52

\* addresses an extend instruction takes in the loop
ChunkSize == 25

RecentSlots == {7}

\* AddressLookupTableProgram.createLookupTable derives the table address
LookupTableAddress(authority, recentSlot) == <<"lookup_table", authority, recentSlot>>

\* the static accounts of the table; the authority is the last
BaseAccounts(authority) ==
  <<"SystemProgram", "ComputeBudgetProgram", "programId", "registeredProgramPda",
    "accountCompressionAuthority", "accountCompressionProgram", "allowedAddressTree",
    "cpiSignerPda", "eventAuthority", "sasAuthority", authority>>

\* the additional accounts of the samples: account k is the k-th key
AdditionalSamples == {[i \in 1 .. n |-> i] : n \in 0 .. MaxAdditional}

\* the end index is taken as inclusive
slice_inclusive(array, begin, end) ==
  SubSeq(array, begin + 1, IF end + 1 < Len(array) THEN end + 1 ELSE Len(array))

\* Array.prototype.slice(begin, end) for 0 <= begin <= end
slice(array, begin, end) ==
  SubSeq(array, begin + 1, IF end < Len(array) THEN end ELSE Len(array))

ExtendInstruction(payer, authority, lookupTable, addresses) ==
  [kind |-> "extendLookupTable", payer |-> payer, authority |-> authority,
   lookupTable |-> lookupTable, addresses |-> addresses]

\* lines 113-122: for (let i = 0; i < additionalAccounts.length; i += 25)
RECURSIVE ExtendLoop(_, _, _)
ExtendLoop(input, lookupTable, i) ==
  IF i < Len(input.additionalAccounts)
  THEN <<ExtendInstruction(input.payer, input.authority, lookupTable,
                           slice(input.additionalAccounts, i, i + ChunkSize))>>
          \o ExtendLoop(input, lookupTable, i + ChunkSize)
  ELSE <<>>

createCompressionLookupTable(input) ==
  LET lookupTableAddress == LookupTableAddress(input.authority, input.recentSlot)
      createInstruction ==
        [kind |-> "createLookupTable", payer |-> input.payer,
         authority |-> input.authority, recentSlot |-> input.recentSlot]
      extendInstruction ==
        ExtendInstruction(input.payer, input.authority, lookupTableAddress,
                          BaseAccounts(input.authority))
  IN [instructions |->
        <<createInstruction, extendInstruction>>
           \o (IF input.given /\ Len(input.additionalAccounts) > 0
               THEN ExtendLoop(input, lookupTableAddress, 0)
               ELSE <<>>),
      address |-> lookupTableAddress]

\* additionalAccounts is optional: `given' tells whether it is there
LookupTableInputs ==
  [payer : {Payer}, authority : Identities, recentSlot : RecentSlots,
   given : {TRUE}, additionalAccounts : AdditionalSamples]
    \cup [payer : {Payer}, authority : Identities, recentSlot : RecentSlots,
          given : {FALSE}, additionalAccounts : {<<>>}]

InitLookupTable ==
  /\ credentials = [a \in CredentialAddrs |-> NoAccount]
  /\ schemas = [a \in SchemaAddrs |-> NoAccount]
  /\ attestations = [a \in AttestationAddrs |-> NoAccount]
  /\ lamports = [a \in {Payer} \cup AttestationAddrs |-> 0]
  /\ clock = ClockGenesis
  /\ \E input \in LookupTableInputs : last = [op |-> "LookupTableInput", input |-> input]

CreateCompressionLookupTable ==
  /\ last.op = "LookupTableInput"
  /\ last' = [op |-> "createCompressionLookupTable", input |-> last.input,
              returned |-> createCompressionLookupTable(last.input)]
  /\ UNCHANGED <<registry, clock>>

NextLookupTable == CreateCompressionLookupTable

SpecLookupTable == InitLookupTable /\ [][NextLookupTable]_vars

(***************************************************************************)
(* C23.  The instructions of createCompressionLookupTable.                 *)
(***************************************************************************)
\* the addresses of the instructions from the third on, one after the other
RECURSIVE C23_Chunked(_, _)
C23_Chunked(instructions, k) ==
  IF k > Len(instructions)
  THEN <<>>
  ELSE instructions[k].addresses \o C23_Chunked(instructions, k + 1)

\* C23: createCompressionLookupTable returns the create instruction, then an
\* extend instruction with the 11 base accounts, then one extend instruction
\* per chunk of additionalAccounts: 2 + ceil(n / 25) instructions for n
\* additional accounts (2 when they are absent or empty), every chunk of 1 to
\* 25 addresses, the chunks in order making up additionalAccounts, and every
\* extend instruction aimed at the returned table address.
C23_Instructions ==
  last.op = "createCompressionLookupTable"
     => LET ixs == last.returned.instructions
            n == Len(last.input.additionalAccounts)
        IN /\ ixs[1].kind = "createLookupTable"
           /\ ixs[2].kind = "extendLookupTable"
           /\ Len(ixs[2].addresses) = 11
           /\ ixs[2].addresses = BaseAccounts(last.input.authority)
           /\ Len(ixs) = 2 + (n + 24) \div 25
           /\ (~last.input.given \/ n = 0) => Len(ixs) = 2
           /\ \A k \in 3 .. Len(ixs) :
                 /\ Len(ixs[k].addresses) >= 1
                 /\ Len(ixs[k].addresses) <= 25
           /\ C23_Chunked(ixs, 3) = last.input.additionalAccounts
           /\ \A k \in 2 .. Len(ixs) :
                 /\ ixs[k].kind = "extendLookupTable"
                 /\ ixs[k].lookupTable = last.returned.address

\* the table has been built for 51 additional accounts: two full chunks and a
\* last chunk of one address
C23_Witness ==
  /\ last.op = "createCompressionLookupTable"
  /\ Len(last.input.additionalAccounts) = 51
  /\ Len(last.returned.instructions) = 5
  /\ Len(last.returned.instructions[5].addresses) = 1

(***************************************************************************)
(* Requests with any number of faults at once: the account count, the      *)
(* signature, the program accounts, the entity accounts, the flags and the *)
(* data of a request are chosen independently of each other.               *)
(***************************************************************************)
FaultsCreateCredentialRequests ==
  [authority : {Authority}, name : CredentialNames, signers : {<<id>> : id \in Identities}]

FaultsCreateSchemaRequests ==
  [is_signer : {TRUE}, authority : {Authority}, credential : HomeCredentials,
   name : SchemaNames, version : SchemaVersions, layout : {TestLayout}]

FaultsCreateAttestationRequests ==
  {req \in [instruction_data_ok : BOOLEAN,
            num_accounts : {CreateAttestationAccounts - 1, CreateAttestationAccounts},
            is_signer : BOOLEAN,
            system_program : {SystemProgram, OtherProgram},
            authorized_signer : Identities,
            credential : CredentialAddrs,
            schema : HomeSchemas,
            attestation : AttestationAddrs,
            nonce : Nonces,
            data : ValidData \cup GarbageData,
            expiry : {0},
            token_account : {None}] :
     req.attestation[3] = req.schema}

FaultsCloseAttestationRequests ==
  [num_accounts : {CloseAttestationAccounts - 1, CloseAttestationAccounts},
   is_signer : BOOLEAN,
   system_program : {SystemProgram, OtherProgram},
   attestation_program : {AttestationProgram, OtherProgram},
   authorized_signer : Identities,
   credential : CredentialAddrs,
   attestation : HomeAttestations,
   attestation_writable : BOOLEAN,
   event_authority : {EventAuthorityPda, OtherProgram},
   token_account : {None},
   cpi_ok : BOOLEAN]

NextFaults ==
  \/ \E req \in FaultsCreateCredentialRequests : CreateCredential(req)
  \/ \E req \in FaultsCreateSchemaRequests : CreateSchema(req)
  \/ \E req \in FaultsCreateAttestationRequests : CreateAttestation(req)
  \/ \E req \in FaultsCloseAttestationRequests : CloseAttestation(req)
  \/ Airdrop

SpecFaults == Init /\ [][NextFaults]_vars

(***************************************************************************)
(* C24.  The order of the checks.                                          *)
(***************************************************************************)
\* the statement as written: a wrong account count is reported before anything
\* else, and ownership is checked before the system program account
C24_SpecOrder ==
  /\ \A req \in FaultsCreateAttestationRequests :
        /\ req.num_accounts # CreateAttestationAccounts
              => process_create_attestation(req) = "NotEnoughAccountKeys"
        /\ ( /\ req.num_accounts = CreateAttestationAccounts
             /\ req.is_signer
             /\ ~ProgramOwned(req.credential)
             /\ req.system_program # SystemProgram )
              => process_create_attestation(req) = "InvalidAccountOwner"
  /\ \A req \in FaultsCloseAttestationRequests :
        /\ req.num_accounts # CloseAttestationAccounts
              => process_close_attestation(req) = "NotEnoughAccountKeys"
        /\ ( /\ req.num_accounts = CloseAttestationAccounts
             /\ req.is_signer
             /\ ~ProgramOwned(req.credential)
             /\ req.system_program # SystemProgram )
              => process_close_attestation(req) = "InvalidAccountOwner"

\* the create request gets as far as the ownership checks
C24_CreatePlumbed(req) ==
  /\ req.instruction_data_ok
  /\ req.num_accounts = CreateAttestationAccounts
  /\ req.is_signer
  /\ req.system_program = SystemProgram

\* the close request gets as far as the ownership checks
C24_ClosePlumbed(req) ==
  /\ req.num_accounts = CloseAttestationAccounts
  /\ req.is_signer
  /\ req.system_program = SystemProgram
  /\ req.attestation_program = AttestationProgram

\* C24: each operation reports the first failing check in the order
\* (CreateAttestation only: instruction data), account count, signer signature,
\* system program and current program identity, program ownership, writability,
\* entity deserialization with the domain checks: a wrong account count gives
\* NotEnoughAccountKeys whatever else is wrong with the accounts, and a request
\* with a credential not owned by the program and a wrong system program
\* account gives IncorrectProgramId, not the ownership error.
C24_CodeOrder ==
  /\ \A req \in FaultsCreateAttestationRequests :
        /\ ~req.instruction_data_ok
              => process_create_attestation(req) = "InvalidInstructionData"
        /\ (req.instruction_data_ok /\ req.num_accounts # CreateAttestationAccounts)
              => process_create_attestation(req) = "NotEnoughAccountKeys"
        /\ ( /\ req.instruction_data_ok
             /\ req.num_accounts = CreateAttestationAccounts
             /\ ~req.is_signer )
              => process_create_attestation(req) = "MissingRequiredSignature"
        /\ ( /\ req.instruction_data_ok
             /\ req.num_accounts = CreateAttestationAccounts
             /\ req.is_signer
             /\ req.system_program # SystemProgram )
              => process_create_attestation(req) = "IncorrectProgramId"
        /\ ( /\ C24_CreatePlumbed(req)
             /\ (~ProgramOwned(req.credential) \/ ~ProgramOwned(req.schema)) )
              => process_create_attestation(req) = "InvalidAccountOwner"
        /\ ( /\ C24_CreatePlumbed(req)
             /\ ProgramOwned(req.credential)
             /\ ProgramOwned(req.schema)
             /\ ~CreateSignerListed(req) )
              => process_create_attestation(req) = "SignerNotAuthorized"
  /\ \A req \in FaultsCloseAttestationRequests :
        /\ req.num_accounts # CloseAttestationAccounts
              => process_close_attestation(req) = "NotEnoughAccountKeys"
        /\ (req.num_accounts = CloseAttestationAccounts /\ ~req.is_signer)
              => process_close_attestation(req) = "MissingRequiredSignature"
        /\ ( /\ req.num_accounts = CloseAttestationAccounts
             /\ req.is_signer
             /\ \/ req.system_program # SystemProgram
                \/ req.attestation_program # AttestationProgram )
              => process_close_attestation(req) = "IncorrectProgramId"
        /\ ( /\ C24_ClosePlumbed(req)
             /\ (~ProgramOwned(req.credential) \/ ~ProgramOwned(req.attestation)) )
              => process_close_attestation(req) = "InvalidAccountOwner"
        /\ ( /\ C24_ClosePlumbed(req)
             /\ ProgramOwned(req.credential)
             /\ ProgramOwned(req.attestation)
             /\ ~req.attestation_writable )
              => process_close_attestation(req) = "InvalidAccountData"
        /\ ( /\ C24_ClosePlumbed(req)
             /\ ProgramOwned(req.credential)
             /\ ProgramOwned(req.attestation)
             /\ req.attestation_writable
             /\ ~CloseSignerListed(req) )
              => process_close_attestation(req) = "SignerNotAuthorized"

\* a create with a wrong system program account has just been refused for it,
\* while requests were naming a credential account the program does not own
C24_Witness ==
  /\ last.op = "CreateAttestation"
  /\ last.result = "IncorrectProgramId"
  /\ last.check = "verify_system_program"
  /\ \E req \in FaultsCreateAttestationRequests :
        /\ ~ProgramOwned(req.credential)
        /\ req.system_program # SystemProgram
        /\ create_attestation_check(req) = "verify_system_program"
  /\ \E c \in HomeCredentials : ProgramOwned(c)

(***************************************************************************)
(* The steps of the two processors in the order of their lines, and those  *)
(* among them that write to an account.                                    *)
(***************************************************************************)
\* process_create_attestation: lines 27-133
CreateAttestationSteps ==
  <<"instruction_data", "accounts", "verify_signer", "verify_system_program",
    "credential_owner", "schema_owner", "credential_data",
    "validate_authorized_signer", "schema_data", "is_paused", "schema_credential",
    "expiry", "attestation_pda", "create_pda_account", "validate_data", "write">>

\* lines 109-117 allocate and fund the account, line 133 writes its data
CreateAttestationMutations == {"create_pda_account", "write"}

\* process_close_attestation: lines 27-99
CloseAttestationSteps ==
  <<"accounts", "verify_signer", "verify_system_program", "verify_current_program",
    "credential_owner", "attestation_owner", "attestation_writable", "credential_data",
    "validate_authorized_signer", "attestation_data", "token_account",
    "attestation_credential", "checked_add", "zero_lamports", "close",
    "event_authority", "invoke_signed">>

\* lines 70-75 credit the payer, zero the attestation's lamports and close it
CloseAttestationMutations == {"checked_add", "zero_lamports", "close"}

\* the step a failing check belongs to: the rent is asked for by create_pda_account
StepOf(check) == IF check = "rent" THEN "create_pda_account" ELSE check

\* the writing steps that have run when the processor returns at the check
MutationsBefore(steps, mutations, check) ==
  {steps[i] : i \in {j \in DOMAIN steps :
                       /\ steps[j] \in mutations
                       /\ \E k \in DOMAIN steps : steps[k] = StepOf(check) /\ j < k}}

(***************************************************************************)
(* C25.  Writes and checks within one operation.                           *)
(***************************************************************************)
\* the statement as written: when an operation fails at a check, no writing
\* step has run before that check
C25_ChecksFirst ==
  /\ (last.op = "CreateAttestation" /\ last.result # "Ok")
        => MutationsBefore(CreateAttestationSteps, CreateAttestationMutations,
                           last.check) = {}
  /\ (last.op = "CloseAttestation" /\ last.result # "Ok")
        => MutationsBefore(CloseAttestationSteps, CloseAttestationMutations,
                           last.check) = {}

C25_Order ==
  /\ (last.op = "CreateAttestation" /\ last.result # "Ok")
        => MutationsBefore(CreateAttestationSteps, CreateAttestationMutations,
                           last.check)
              = IF last.check = "validate_data" THEN {"create_pda_account"} ELSE {}
  /\ (last.op = "CloseAttestation" /\ last.result # "Ok")
        => MutationsBefore(CloseAttestationSteps, CloseAttestationMutations,
                           last.check)
              = IF last.check \in {"event_authority", "invoke_signed"}
                THEN {"checked_add", "zero_lamports", "close"}
                ELSE {}
  /\ \A req \in FaultsCloseAttestationRequests :
        ( /\ C24_ClosePlumbed(req)
          /\ req.attestation_writable
          /\ CloseAccountsKnown(req)
          /\ CloseSignerListed(req)
          /\ CloseAttestationBound(req)
          /\ ~CloseSumFits(req) )
           => process_close_attestation(req) = "ArithmeticOverflow"
  /\ \A req \in FaultsCreateAttestationRequests :
        ( /\ C24_CreatePlumbed(req)
          /\ CreateAccountsKnown(req)
          /\ CreateSignerListed(req)
          /\ CreateSchemaOpen(req)
          /\ CreateSchemaBound(req)
          /\ req.attestation = AttestationPda(req.credential, req.schema, req.nonce)
          /\ IsActive(req.attestation) )
           => process_create_attestation(req) = "AccountCreationError"

C25_Step ==
  (last'.op \in {"CreateAttestation", "CloseAttestation"} /\ last'.result # "Ok")
     => UNCHANGED registry

\* C25: the writes of an operation are not all after its checks: CloseAttestation
\* moves the balance and closes the attestation before it compares the event
\* authority and emits the event, and CreateAttestation allocates the account
\* before it validates the data against the layout; every other check precedes
\* every write, a failure of the transfer or of the allocation is reported
\* before the later checks are looked at, and an operation that fails at any
\* check leaves the registry as it was.
C25_RolledBack == []C25_Order /\ [][C25_Step]_vars

\* a create whose data does not conform has just been refused: the account had
\* been allocated from the payer's lamports, and nothing is left of it
C25_Witness ==
  /\ last.op = "CreateAttestation"
  /\ last.result = "InvalidAttestationData"
  /\ last.check = "validate_data"
  /\ lamports[Payer] >= RentMinimum
  /\ \A a \in AttestationAddrs : attestations[a] = NoAccount /\ lamports[a] = 0

(***************************************************************************)
(* C26.  Accounts at addresses that are not the derived ones.              *)
(***************************************************************************)
\* every entity account of the program stands at the address derived from what
\* it records
C26_Placed ==
  /\ \A c \in CredentialAddrs :
        credentials[c] # NoAccount
           => c = CredentialPda(credentials[c].authority, credentials[c].name)
  /\ \A s \in SchemaAddrs :
        schemas[s] # NoAccount
           => s = SchemaPda(schemas[s].credential, schemas[s].name, schemas[s].version)
  /\ \A a \in AttestationAddrs :
        IsActive(a)
           => a = AttestationPda(attestations[a].credential, attestations[a].schema,
                                 attestations[a].nonce)

MaxArgData == 2

ArgDataSamples == UNION {[1 .. k -> CodecByteSamples] : k \in 0 .. MaxArgData}

\* no expiry, a timestamp of one byte, one of two bytes, and a negative one
ExpirySamples == {0, 1, 300, -1}

\* the bytes of an integer in two's complement, least significant first
RECURSIVE encode_le(_, _)
encode_le(x, width) ==
  IF width = 0 THEN <<>> ELSE <<x % 256>> \o encode_le(x \div 256, width - 1)

\* a signed integer from its little-endian bytes
RECURSIVE decode_le_signed(_)
decode_le_signed(bytes) ==
  IF Len(bytes) = 1
  THEN IF Head(bytes) >= 128 THEN Head(bytes) - 256 ELSE Head(bytes)
  ELSE Head(bytes) + 256 * decode_le_signed(Tail(bytes))

\* nonce (32 bytes), data_len (u32 LE), data_bytes, expiry (i64 LE)
encode_args(nonce, data, expiry) ==
  nonce \o encode_le(Len(data), 4) \o data \o encode_le(expiry, 8)

\* require_len!: the buffer has the bytes that are about to be read
require_len(data, len) == Len(data) >= len

NoArgs == [ok |-> FALSE, nonce |-> <<>>, data |-> <<>>, expiry |-> 0]

process_instruction_data(buffer) ==
  IF ~require_len(buffer, PubkeyBytes) THEN NoArgs
  ELSE IF ~require_len(buffer, PubkeyBytes + 4) THEN NoArgs
  ELSE LET data_len == U32LE(buffer, PubkeyBytes)
           offset == PubkeyBytes + 4 + data_len
       IN IF ~require_len(buffer, offset) THEN NoArgs
          ELSE IF ~require_len(buffer, offset + 8) THEN NoArgs
          ELSE [ok |-> TRUE,
                nonce |-> SubSeq(buffer, 1, PubkeyBytes),
                data |-> SubSeq(buffer, PubkeyBytes + 5, offset),
                expiry |-> decode_le_signed(SubSeq(buffer, offset + 1, offset + 8))]

ArgSamples == [nonce : PubkeySamples, data : ArgDataSamples, expiry : ExpirySamples]

\* an encoding, an encoding cut short, or an encoding with a byte after it
ArgBuffers ==
  UNION {LET bytes == encode_args(a.nonce, a.data, a.expiry)
         IN {SubSeq(bytes, 1, k) : k \in PubkeyBytes - 1 .. Len(bytes)}
               \cup {bytes \o <<b>> : b \in CodecByteSamples} :
         a \in ArgSamples}

InitParse ==
  /\ credentials = [a \in CredentialAddrs |-> NoAccount]
  /\ schemas = [a \in SchemaAddrs |-> NoAccount]
  /\ attestations = [a \in AttestationAddrs |-> NoAccount]
  /\ lamports = [a \in {Payer} \cup AttestationAddrs |-> 0]
  /\ clock = ClockGenesis
  /\ \E buffer \in ArgBuffers : last = [op |-> "instruction_data", buffer |-> buffer]

ProcessInstructionData ==
  /\ last.op = "instruction_data"
  /\ last' = [op |-> "process_instruction_data", buffer |-> last.buffer,
              args |-> process_instruction_data(last.buffer)]
  /\ UNCHANGED <<registry, clock>>

NextParse == ProcessInstructionData

SpecParse == InitParse /\ [][NextParse]_vars

(***************************************************************************)
(* C27.  The length of the argument buffer.                                *)
(***************************************************************************)
\* the buffer is 32 + 4 + data_len + 8 bytes long
C27_Exact(buffer) ==
  /\ Len(buffer) >= PubkeyBytes + 4
  /\ Len(buffer) = PubkeyBytes + 4 + U32LE(buffer, PubkeyBytes) + 8

\* C27: the argument buffer of CreateAttestation is read as nonce, data length,
\* data and expiry; a buffer whose length is not exactly 32 + 4 + data_len + 8,
\* shorter or longer, is rejected, and parsing the encoding of (nonce, data,
\* expiry) returns the three values.
C27_ExactLength ==
  last.op = "process_instruction_data"
     => /\ ~C27_Exact(last.buffer) => ~last.args.ok
        /\ \A a \in ArgSamples :
              last.buffer = encode_args(a.nonce, a.data, a.expiry)
                 => last.args = [ok |-> TRUE, nonce |-> a.nonce, data |-> a.data,
                                 expiry |-> a.expiry]

\* what holds of the parser: short buffers are rejected, encodings are read back
C27_Sufficient ==
  last.op = "process_instruction_data"
     => /\ (\/ Len(last.buffer) < PubkeyBytes + 4
            \/ Len(last.buffer) < PubkeyBytes + 4 + U32LE(last.buffer, PubkeyBytes) + 8)
              => ~last.args.ok
        /\ \A a \in ArgSamples :
              last.buffer = encode_args(a.nonce, a.data, a.expiry)
                 => last.args = [ok |-> TRUE, nonce |-> a.nonce, data |-> a.data,
                                 expiry |-> a.expiry]

(***************************************************************************)
(* The attestation account at the level of bytes: the space asked for and  *)
(* the record written into it.                                             *)
(***************************************************************************)
\* the discriminator byte of an attestation account
AttestationDiscriminator == <<2>>

\* the length prefix of the data is left out of the sum
attestation_space_without_prefix(data_len) == 1 + 32 + 32 + 32 + data_len + 32 + 8 + 32

\* let space = 1 + 32 + 32 + 32 + (4 + args.data.len()) + 32 + 8 + 32
attestation_space(data_len) == 1 + 32 + 32 + 32 + (4 + data_len) + 32 + 8 + 32

\* Attestation::to_bytes: discriminator, nonce, credential, schema, data with
\* its length, signer, expiry, token account
to_bytes(attestation) ==
  AttestationDiscriminator \o attestation.nonce \o attestation.credential
     \o attestation.schema \o encode_le(Len(attestation.data), 4) \o attestation.data
     \o attestation.signer \o encode_le(attestation.expiry, 8)
     \o attestation.token_account

\* Pubkey::default() is 32 zero bytes
DefaultPubkeyBytes == [i \in 1 .. PubkeyBytes |-> 0]

AttestationSamples ==
  [nonce : PubkeySamples, credential : PubkeySamples, schema : PubkeySamples,
   data : ArgDataSamples, signer : PubkeySamples, expiry : ExpirySamples,
   token_account : {DefaultPubkeyBytes}]

InitSpace ==
  /\ credentials = [a \in CredentialAddrs |-> NoAccount]
  /\ schemas = [a \in SchemaAddrs |-> NoAccount]
  /\ attestations = [a \in AttestationAddrs |-> NoAccount]
  /\ lamports = [a \in {Payer} \cup AttestationAddrs |-> 0]
  /\ clock = ClockGenesis
  /\ \E attestation \in AttestationSamples :
        last = [op |-> "attestation", attestation |-> attestation]

\* lines 97-133: the space is computed, the account allocated and the record written
AllocateAndWrite ==
  /\ last.op = "attestation"
  /\ last' = [op |-> "allocate_and_write", attestation |-> last.attestation,
              space |-> attestation_space(Len(last.attestation.data)),
              written |-> to_bytes(last.attestation)]
  /\ UNCHANGED <<registry, clock>>

NextSpace == AllocateAndWrite

SpecSpace == InitSpace /\ [][NextSpace]_vars

(***************************************************************************)
(* C28.  The space of an attestation account.                              *)
(***************************************************************************)
\* C28: for data of n bytes CreateAttestation allocates 173 + n bytes, and the
\* serialized attestation record that is written has that length.
C28_Space ==
  last.op = "allocate_and_write"
     => /\ last.space = 173 + Len(last.attestation.data)
        /\ last.space = Len(last.written)

\* the account of an attestation with the longest sample data has been sized
\* and written
C28_Witness ==
  /\ last.op = "allocate_and_write"
  /\ Len(last.attestation.data) = MaxArgData
  /\ Len(last.written) = 173 + MaxArgData

(***************************************************************************)
(* C29.  Two closes of one attestation.                                    *)
(***************************************************************************)
\* the lamports of the accounts of a set, summed
RECURSIVE C29_Total(_, _)
C29_Total(balances, accounts) ==
  IF accounts = {}
  THEN 0
  ELSE LET a == CHOOSE x \in accounts : TRUE
       IN balances[a] + C29_Total(balances, accounts \ {a})

C29_Step ==
  /\ (last'.op = "CloseAttestation" /\ last'.result = "Ok")
        => LET a == last'.req.attestation
           IN /\ process_close_attestation(last'.req) = "Ok"
              /\ \A other \in CloseAttestationRequests :
                    other.attestation = a
                       => process_close_attestation(other)' # "Ok"
              /\ lamports'[Payer] = lamports[Payer] + lamports[a]
              /\ lamports'[a] = 0
              /\ C29_Total(lamports', DOMAIN lamports) = C29_Total(lamports, DOMAIN lamports)
  /\ (last'.op = "CloseAttestation" /\ last'.result # "Ok")
        => lamports' = lamports

\* C29: of two CloseAttestation requests for one active attestation, whichever
\* runs first and passes its checks succeeds and every close of that
\* attestation that runs after it is rejected; the payer is credited the
\* attestation's balance once and the total of all balances does not change.
C29_OneCloses == [][C29_Step]_vars

\* the second close of an attestation has just been refused: the account is
\* closed and empty and the payer has its lamports
C29_Witness ==
  /\ last.op = "CloseAttestation"
  /\ last.result = "InvalidAccountOwner"
  /\ last.check = "attestation_owner"
  /\ \E a \in HomeAttestations :
        /\ attestations[a] = ClosedAccount
        /\ lamports[a] = 0
  /\ lamports[Payer] >= RentMinimum

(***************************************************************************)
(* C30.  Who may close an attestation.                                     *)
(***************************************************************************)
\* every condition of the close holds, the membership of the signer aside
C30_OtherwiseAdmitted(req) ==
  /\ CloseFramed(req)
  /\ CloseAccountsKnown(req)
  /\ CloseAttestationBound(req)
  /\ CloseSumFits(req)
  /\ token_account_consistent(req.token_account, attestations[req.attestation])

\* the closer is in the signer set as it is at the close
C30_ListedNow ==
  \A req \in CloseAttestationRequests :
     C30_OtherwiseAdmitted(req)
        => /\ CloseSignerListed(req) => process_close_attestation(req) = "Ok"
           /\ ~CloseSignerListed(req)
                 => process_close_attestation(req) = "SignerNotAuthorized"
           /\ ( /\ req.authorized_signer = attestations[req.attestation].signer
                /\ ~CloseSignerListed(req) )
                 => close_attestation_check(req) = "validate_authorized_signer"
           /\ ( /\ req.authorized_signer # attestations[req.attestation].signer
                /\ CloseSignerListed(req) )
                 => close_attestation_check(req) = "none"

C30_Step ==
  (last'.op = "CloseAttestation" /\ last'.result = "Ok")
     => \E i \in DOMAIN credentials[last'.req.credential].authorized_signers :
           credentials[last'.req.credential].authorized_signers[i]
              = last'.req.authorized_signer

\* C30: CloseAttestation does not ask for the attestation's creator: a signer
\* of the request that is in the signer set of the attestation's credential at
\* the time of the close closes it, a signer added after the creation
\* included, and the identity recorded as the attestation's signer is refused
\* once it is no longer in the set.
C30_AnyListedSigner == []C30_ListedNow /\ [][C30_Step]_vars

\* a close has just been refused for its signer while the identity recorded in
\* an active attestation is out of the signer set and another identity is in
C30_Witness ==
  /\ last.op = "CloseAttestation"
  /\ last.result = "SignerNotAuthorized"
  /\ \E a \in HomeAttestations :
        /\ IsActive(a)
        /\ LET list == credentials[attestations[a].credential].authorized_signers
           IN /\ \A i \in DOMAIN list : list[i] # attestations[a].signer
              /\ \E i \in DOMAIN list : list[i] # attestations[a].signer

============================================================================
